---- MODULE Spec2Model ----
(***************************************************************************)
(* A model of fol_ly: terms and formulas of a first order language, their  *)
(* rendering and parsing, substitution, substitutability and the recovery  *)
(* of a substituted term.                                                  *)
(*                                                                         *)
(* A tree node is a record [language, tag, sym, args]: tag is the name of  *)
(* the Python class, sym the symbol the node holds (variable, constant,    *)
(* function or relation symbol, bound variable; "" when it holds none) and *)
(* args the ordered children.  A Python string of the language is the      *)
(* sequence of its space-delimited symbols (language.py, lines 13-16), so  *)
(* " ".join(xs) and s.split() are the passage between the two readings of  *)
(* one sequence.  A raised ValueError and the value None are two further   *)
(* records of the same shape, so that every outcome of a call is a value.  *)
(***************************************************************************)
EXTENDS Integers, Sequences, FiniteSets, TLC

\* ------------------------------------------------------------------ bounds

\* Number of symbols of the strings that are rendered and parsed: a term is
\* built only if its rendering has at most MaxTermLen symbols, a formula only
\* if its rendering has at most MaxLen symbols.
MaxTermLen == 7

MaxLen == 16

\* Number of symbols of the renderings that are parsed after a symbol of
\* them has been deleted, inserted or replaced.
MaxGarbledLen == 9

\* Number of symbols of the renderings of the trees that are given to a
\* constructor beside arguments the constructor may refuse.
MaxChildLen == 4

\* Number of symbols of the renderings of the formulas that are put under
\* the quantifier of a formula given to the recognizer of a quantifier axiom
\* or to the test of a quantifier rule.
MaxBodyLen == 9

\* ---------------------------------------------------------------- language

\* The languages of the test suite (test_formula.py, setUp), by name.
Languages ==
    [language1 |-> [constants |-> {"a", "b", "c"},
                    functions |-> (1 :> {"f1"} @@ 3 :> {"f3"}),
                    relations |-> (2 :> {"r2"})],
     language2 |-> [constants |-> {"a", "y", "z"},
                    functions |-> (1 :> {"f1", "f2"}),
                    relations |-> (2 :> {"r2"} @@ 3 :> {"r3"})]]

\* The strings that match VAR_SYMBOL_RE among the symbols the model uses.
VariableSymbols == {"v1", "v2", "v3"}

is_variable_symbol(symbol) == symbol \in VariableSymbols

\* is_constant_symbol of a vocabulary in which the function symbol f1 is a
\* constant symbol too.
is_constant_symbol_or_f1(language, symbol) ==
    symbol \in Languages[language].constants \cup {"f1"}

is_constant_symbol(language, symbol) == symbol \in Languages[language].constants

\* None of Python: the arity of a symbol that has none is reported as 0
\* (a key of the arity dictionaries is a positive integer).
get_function_arity(language, symbol) ==
    LET functions == Languages[language].functions IN
    IF \E n \in DOMAIN functions : symbol \in functions[n]
    THEN CHOOSE n \in DOMAIN functions : symbol \in functions[n]
    ELSE 0

get_relation_arity(language, symbol) ==
    LET relations == Languages[language].relations IN
    IF \E n \in DOMAIN relations : symbol \in relations[n]
    THEN CHOOSE n \in DOMAIN relations : symbol \in relations[n]
    ELSE 0

\* The logical symbols and the shorthand symbols of every language.
COMMON_SYMBOLS == {"(", ")", "||", "!!", "AA", "="}

SHORTHAND_SYMBOLS == {"&&", "->", "<->", "EE"}

\* The strings in which the pattern \s is found, among the symbols the model
\* uses.
WhitespaceSymbols == {"r 2"}

is_valid_nonlogical_symbol(symbol) ==
    /\ symbol \notin COMMON_SYMBOLS
    /\ symbol \notin WhitespaceSymbols
    /\ ~is_variable_symbol(symbol)
    /\ symbol \notin SHORTHAND_SYMBOLS

\* The loop of is_disjoint_sets over the list of the sets given: an element
\* of a set is looked for in the sets before it.
is_disjoint_sets(sets) ==
    \A i \in 1..Len(sets) :
        sets[i] \cap UNION {sets[j] : j \in 1..(i - 1)} = {}

\* A dictionary from arities to sets of symbols is the list of its items
\* <<key, set>>, in the order of iteration.
dict_values(dictionary) == [i \in 1..Len(dictionary) |-> dictionary[i][2]]

\* Language.__init__ without the test of disjointness.
Language_without_disjointness(constants, functions, relations) ==
    LET invalid(sets) ==
            \E i \in 1..Len(sets) : \E symbol \in sets[i] :
                ~is_valid_nonlogical_symbol(symbol)
        bad_key(dictionary) ==
            \E i \in 1..Len(dictionary) : ~(dictionary[i][1] > 0)
    IN [raised |-> \/ invalid(<<constants>>)
                   \/ bad_key(functions)
                   \/ invalid(dict_values(functions))
                   \/ bad_key(relations)
                   \/ invalid(dict_values(relations)),
        constants |-> constants, functions |-> functions,
        relations |-> relations]

\* Language.__init__: raised says that it raised ValueError, and the other
\* fields are the attributes of the language constructed.
Language(constants, functions, relations) ==
    LET invalid(sets) ==
            \E i \in 1..Len(sets) : \E symbol \in sets[i] :
                ~is_valid_nonlogical_symbol(symbol)
        bad_key(dictionary) ==
            \E i \in 1..Len(dictionary) : ~(dictionary[i][1] > 0)
    IN [raised |-> \/ ~is_disjoint_sets(<<constants>> \o dict_values(functions)
                                            \o dict_values(relations))
                   \/ invalid(<<constants>>)
                   \/ bad_key(functions)
                   \/ invalid(dict_values(functions))
                   \/ bad_key(relations)
                   \/ invalid(dict_values(relations)),
        constants |-> constants, functions |-> functions,
        relations |-> relations]

\* The loop of get_function_arity and get_relation_arity over a dictionary:
\* the key of the first item whose set holds the symbol, and 0 for None.
first_arity(dictionary, symbol) ==
    LET found == {i \in 1..Len(dictionary) : symbol \in dictionary[i][2]} IN
    IF found = {} THEN 0
    ELSE dictionary[CHOOSE i \in found : \A j \in found : i <= j][1]

\* ---------------------------------------------------------------- outcomes

ValueError == [language |-> "", tag |-> "ValueError", sym |-> "", args |-> <<>>]

None == [language |-> "", tag |-> "None", sym |-> "", args |-> <<>>]

\* The exception of Python for a local variable read before any assignment.
UnboundLocalError ==
    [language |-> "", tag |-> "UnboundLocalError", sym |-> "", args |-> <<>>]

\* An exception raised while an argument list is evaluated leaves the call.
Raised(results) == \E i \in 1..Len(results) : results[i] = ValueError

\* ------------------------------------------------------------------- terms

VariableTerm(language, variable) ==
    IF ~is_variable_symbol(variable) THEN ValueError
    ELSE [language |-> language, tag |-> "VariableTerm",
          sym |-> variable, args |-> <<>>]

ConstantTerm(language, constant) ==
    IF ~is_constant_symbol(language, constant) THEN ValueError
    ELSE [language |-> language, tag |-> "ConstantTerm",
          sym |-> constant, args |-> <<>>]

\* FunctionTerm.__init__ without the test of the arguments' language.
FunctionTerm_any_language(language, f, arguments) ==
    LET arity == get_function_arity(language, f) IN
    IF Raised(arguments) THEN ValueError
    ELSE IF arity = 0 THEN ValueError
    ELSE IF Len(arguments) # arity THEN ValueError
    ELSE [language |-> language, tag |-> "FunctionTerm",
          sym |-> f, args |-> arguments]

FunctionTerm(language, f, arguments) ==
    LET arity == get_function_arity(language, f) IN
    IF Raised(arguments) THEN ValueError
    ELSE IF arity = 0 THEN ValueError
    ELSE IF Len(arguments) # arity THEN ValueError
    ELSE IF \E i \in 1..Len(arguments) : arguments[i].language # language
         THEN ValueError
    ELSE [language |-> language, tag |-> "FunctionTerm",
          sym |-> f, args |-> arguments]

IsTerm(u) == u.tag \in {"VariableTerm", "ConstantTerm", "FunctionTerm"}

\* " ".join over the renderings of a list of trees.
RECURSIVE Join(_)
Join(strings) ==
    IF strings = <<>> THEN <<>> ELSE Head(strings) \o Join(Tail(strings))

RECURSIVE term_str(_)
term_str(self) ==
    IF self.tag = "FunctionTerm"
    THEN <<self.sym>> \o Join([i \in 1..Len(self.args) |-> term_str(self.args[i])])
    ELSE <<self.sym>>

RECURSIVE get_variable_symbols(_)
get_variable_symbols(self) ==
    CASE self.tag = "VariableTerm" -> {self.sym}
      [] self.tag = "ConstantTerm" -> {}
      [] self.tag = "FunctionTerm" ->
            UNION {get_variable_symbols(self.args[i]) : i \in 1..Len(self.args)}

RECURSIVE term_substitute(_, _, _)

\* term_substitute that replaces every variable, whatever its symbol.
term_substitute_every_variable(self, x, t) ==
    IF ~is_variable_symbol(x) THEN ValueError
    ELSE IF t.language # self.language THEN ValueError
    ELSE CASE self.tag = "VariableTerm" -> t
           [] self.tag = "ConstantTerm" -> ConstantTerm(self.language, self.sym)
           [] self.tag = "FunctionTerm" ->
                FunctionTerm(self.language, self.sym,
                    [i \in 1..Len(self.args) |-> term_substitute(self.args[i], x, t)])

term_substitute(self, x, t) ==
    IF ~is_variable_symbol(x) THEN ValueError
    ELSE IF t.language # self.language THEN ValueError
    ELSE CASE self.tag = "VariableTerm" ->
                IF x = self.sym THEN t ELSE VariableTerm(self.language, self.sym)
           [] self.tag = "ConstantTerm" -> ConstantTerm(self.language, self.sym)
           [] self.tag = "FunctionTerm" ->
                FunctionTerm(self.language, self.sym,
                    [i \in 1..Len(self.args) |-> term_substitute(self.args[i], x, t)])

\* The tail shared by FunctionTerm.find_substituted_term and
\* RelationFormula.find_substituted_term: the candidates of the argument
\* pairs are merged into one outcome.
MergeCandidates(candidates) ==
    LET term_candidates == SelectSeq(candidates, LAMBDA c : c # None) IN
    IF Raised(candidates) THEN ValueError
    ELSE IF \A i \in 1..Len(candidates) : candidates[i] = None THEN None
    ELSE IF Len(term_candidates) = 1 THEN term_candidates[Len(term_candidates)]
    ELSE ValueError

RECURSIVE term_find_substituted_term(_, _, _)
term_find_substituted_term(self, t, x) ==
    IF self.language # t.language THEN ValueError
    ELSE CASE self.tag = "VariableTerm" ->
                IF self.sym = x THEN t
                ELSE IF self = t THEN None
                ELSE ValueError
           [] self.tag = "ConstantTerm" ->
                IF self = t THEN None ELSE ValueError
           [] self.tag = "FunctionTerm" ->
                IF t.tag # "FunctionTerm" \/ self.sym # t.sym THEN ValueError
                ELSE MergeCandidates(
                        [i \in 1..Len(self.args) |->
                            term_find_substituted_term(self.args[i], t.args[i], x)])

\* ------------------------------------------------------------ term parser

\* itertools.combinations(range(lo, hi), r), in the order it yields them.
RECURSIVE combinations(_, _, _)

\* combinations that never takes the first index of the range.
combinations_without_first(lo, hi, r) ==
    IF r = 0 THEN << <<>> >>
    ELSE IF hi - lo < r THEN <<>>
    ELSE LET with == combinations(lo + 2, hi, r - 1)
             without == combinations(lo + 2, hi, r)
         IN [k \in 1..Len(with) |-> <<lo + 1>> \o with[k]] \o without

combinations(lo, hi, r) ==
    IF r = 0 THEN << <<>> >>
    ELSE IF hi - lo < r THEN <<>>
    ELSE LET with == combinations(lo + 1, hi, r - 1)
             without == combinations(lo + 1, hi, r)
         IN [k \in 1..Len(with) |-> <<lo>> \o with[k]] \o without

\* symbols[start:end] of Python (indices from 0, end excluded).
Slice(symbols, start, end) == SubSeq(symbols, start + 1, end)

RECURSIVE string_to_term(_, _)

\* The slices of one tuple of split indices parsed as terms, from the i-th
\* slice on and in order: the first slice that raises ends the attempt.
RECURSIVE term_arguments_from(_, _, _, _)
term_arguments_from(language, symbols, split_indices, i) ==
    LET start == IF i = 1 THEN 1 ELSE split_indices[i - 1]
        end == IF i = Len(split_indices) + 1 THEN Len(symbols)
               ELSE split_indices[i]
        argument == string_to_term(language, Slice(symbols, start, end))
    IN IF i > Len(split_indices) + 1 THEN <<>>
       ELSE IF argument = ValueError THEN <<ValueError>>
       ELSE <<argument>>
                \o term_arguments_from(language, symbols, split_indices, i + 1)

term_arguments(language, symbols, split_indices) ==
    term_arguments_from(language, symbols, split_indices, 1)

\* The loop over the tuples of split indices: the first tuple, in the order
\* they are tried, at which the attempt raises nothing gives the result.
FirstSuccess(attempts) ==
    LET succeeded == {k \in 1..Len(attempts) : attempts[k] # ValueError} IN
    IF succeeded = {} THEN ValueError
    ELSE attempts[CHOOSE k \in succeeded : \A j \in succeeded : k <= j]

term_try_splits(language, symbols, splits) ==
    FirstSuccess([k \in 1..Len(splits) |->
        FunctionTerm(language, symbols[1],
                     term_arguments(language, symbols, splits[k]))])

string_to_term(language, string) ==
    IF Len(string) = 1 /\ is_variable_symbol(string[1])
    THEN VariableTerm(language, string[1])
    ELSE IF Len(string) = 1 /\ is_constant_symbol(language, string[1])
    THEN ConstantTerm(language, string[1])
    ELSE LET symbols == string
             arity == get_function_arity(language, symbols[1])
         IN IF Len(symbols) < 2 THEN ValueError
            ELSE IF arity = 0 \/ Len(symbols) < arity + 1 THEN ValueError
            ELSE IF arity = 1
            THEN FunctionTerm(language, symbols[1],
                              <<string_to_term(language, Tail(symbols))>>)
            ELSE term_try_splits(language, symbols,
                                 combinations(2, Len(symbols), arity - 1))

\* ---------------------------------------------------------------- formulas

EqualityFormula(language, t1, t2) ==
    IF Raised(<<t1, t2>>) THEN ValueError
    ELSE IF t1.language # language \/ t2.language # language THEN ValueError
    ELSE [language |-> language, tag |-> "EqualityFormula",
          sym |-> "", args |-> <<t1, t2>>]

RelationFormula(language, R, arguments) ==
    LET arity == get_relation_arity(language, R) IN
    IF Raised(arguments) THEN ValueError
    ELSE IF arity = 0 THEN ValueError
    ELSE IF Len(arguments) # arity THEN ValueError
    ELSE IF \E i \in 1..Len(arguments) : arguments[i].language # language
         THEN ValueError
    ELSE [language |-> language, tag |-> "RelationFormula",
          sym |-> R, args |-> arguments]

NegationFormula(language, P) ==
    IF P = ValueError THEN ValueError
    ELSE IF P.language # language THEN ValueError
    ELSE [language |-> language, tag |-> "NegationFormula",
          sym |-> "", args |-> <<P>>]

DisjunctionFormula(language, P, Q) ==
    IF Raised(<<P, Q>>) THEN ValueError
    ELSE IF P.language # language \/ Q.language # language THEN ValueError
    ELSE [language |-> language, tag |-> "DisjunctionFormula",
          sym |-> "", args |-> <<P, Q>>]

QuantifiedFormula(language, v, P) ==
    IF P = ValueError THEN ValueError
    ELSE IF P.language # language THEN ValueError
    ELSE IF ~is_variable_symbol(v) THEN ValueError
    ELSE [language |-> language, tag |-> "QuantifiedFormula",
          sym |-> v, args |-> <<P>>]

IsFormula(F) ==
    F.tag \in {"EqualityFormula", "RelationFormula", "NegationFormula",
               "DisjunctionFormula", "QuantifiedFormula"}

RECURSIVE formula_str(_)
formula_str(self) ==
    CASE self.tag = "EqualityFormula" ->
            <<"=">> \o term_str(self.args[1]) \o term_str(self.args[2])
      [] self.tag = "RelationFormula" ->
            <<self.sym>>
                \o Join([i \in 1..Len(self.args) |-> term_str(self.args[i])])
      [] self.tag = "NegationFormula" ->
            <<"(", "!!">> \o formula_str(self.args[1]) \o <<")">>
      [] self.tag = "DisjunctionFormula" ->
            <<"(">> \o formula_str(self.args[1]) \o <<"||">>
                \o formula_str(self.args[2]) \o <<")">>
      [] self.tag = "QuantifiedFormula" ->
            <<"(", "AA", self.sym, ")", "(">> \o formula_str(self.args[1])
                \o <<")">>

RECURSIVE get_free_variables(_)

\* get_free_variables that leaves the bound variable in the set.
get_free_variables_keeping_bound(self) ==
    CASE self.tag = "EqualityFormula" ->
            get_variable_symbols(self.args[1])
                \cup get_variable_symbols(self.args[2])
      [] self.tag = "RelationFormula" ->
            UNION {get_variable_symbols(self.args[i]) : i \in 1..Len(self.args)}
      [] self.tag = "NegationFormula" -> get_free_variables(self.args[1])
      [] self.tag = "DisjunctionFormula" ->
            get_free_variables(self.args[1]) \cup get_free_variables(self.args[2])
      [] self.tag = "QuantifiedFormula" -> get_free_variables(self.args[1])

get_free_variables(self) ==
    CASE self.tag = "EqualityFormula" ->
            get_variable_symbols(self.args[1])
                \cup get_variable_symbols(self.args[2])
      [] self.tag = "RelationFormula" ->
            UNION {get_variable_symbols(self.args[i]) : i \in 1..Len(self.args)}
      [] self.tag = "NegationFormula" -> get_free_variables(self.args[1])
      [] self.tag = "DisjunctionFormula" ->
            get_free_variables(self.args[1]) \cup get_free_variables(self.args[2])
      [] self.tag = "QuantifiedFormula" ->
            get_free_variables(self.args[1]) \ {self.sym}

variable_free_in_formula(self, variable) ==
    variable \in get_free_variables(self)

is_sentence(self) == Cardinality(get_free_variables(self)) = 0

RECURSIVE formula_substitute(_, _, _)

\* formula_substitute that goes under a quantifier of x as under any other.
formula_substitute_under_binder(self, x, t) ==
    IF ~is_variable_symbol(x) THEN ValueError
    ELSE IF t.language # self.language THEN ValueError
    ELSE CASE self.tag = "EqualityFormula" ->
                EqualityFormula(self.language,
                    term_substitute(self.args[1], x, t),
                    term_substitute(self.args[2], x, t))
           [] self.tag = "RelationFormula" ->
                RelationFormula(self.language, self.sym,
                    [i \in 1..Len(self.args) |-> term_substitute(self.args[i], x, t)])
           [] self.tag = "NegationFormula" ->
                NegationFormula(self.language,
                    formula_substitute(self.args[1], x, t))
           [] self.tag = "DisjunctionFormula" ->
                DisjunctionFormula(self.language,
                    formula_substitute(self.args[1], x, t),
                    formula_substitute(self.args[2], x, t))
           [] self.tag = "QuantifiedFormula" ->
                QuantifiedFormula(self.language, self.sym,
                    formula_substitute(self.args[1], x, t))

\* formula_substitute that leaves the right side of a disjunction as it is.
formula_substitute_left_side(self, x, t) ==
    IF ~is_variable_symbol(x) THEN ValueError
    ELSE IF t.language # self.language THEN ValueError
    ELSE CASE self.tag = "EqualityFormula" ->
                EqualityFormula(self.language,
                    term_substitute(self.args[1], x, t),
                    term_substitute(self.args[2], x, t))
           [] self.tag = "RelationFormula" ->
                RelationFormula(self.language, self.sym,
                    [i \in 1..Len(self.args) |-> term_substitute(self.args[i], x, t)])
           [] self.tag = "NegationFormula" ->
                NegationFormula(self.language,
                    formula_substitute(self.args[1], x, t))
           [] self.tag = "DisjunctionFormula" ->
                DisjunctionFormula(self.language,
                    formula_substitute(self.args[1], x, t), self.args[2])
           [] self.tag = "QuantifiedFormula" ->
                IF x = self.sym
                THEN QuantifiedFormula(self.language, self.sym, self.args[1])
                ELSE QuantifiedFormula(self.language, self.sym,
                        formula_substitute(self.args[1], x, t))

formula_substitute(self, x, t) ==
    IF ~is_variable_symbol(x) THEN ValueError
    ELSE IF t.language # self.language THEN ValueError
    ELSE CASE self.tag = "EqualityFormula" ->
                EqualityFormula(self.language,
                    term_substitute(self.args[1], x, t),
                    term_substitute(self.args[2], x, t))
           [] self.tag = "RelationFormula" ->
                RelationFormula(self.language, self.sym,
                    [i \in 1..Len(self.args) |-> term_substitute(self.args[i], x, t)])
           [] self.tag = "NegationFormula" ->
                NegationFormula(self.language,
                    formula_substitute(self.args[1], x, t))
           [] self.tag = "DisjunctionFormula" ->
                DisjunctionFormula(self.language,
                    formula_substitute(self.args[1], x, t),
                    formula_substitute(self.args[2], x, t))
           [] self.tag = "QuantifiedFormula" ->
                IF x = self.sym
                THEN QuantifiedFormula(self.language, self.sym, self.args[1])
                ELSE QuantifiedFormula(self.language, self.sym,
                        formula_substitute(self.args[1], x, t))

\* The tests of is_substitutable without the test of the language of t.
Raises_only_on_variable(self, x, t) == ~is_variable_symbol(x)

\* The answer is TRUE or FALSE; an invalid argument raises, which the model
\* reports through Raises_is_substitutable.
Raises_is_substitutable(self, x, t) ==
    ~is_variable_symbol(x) \/ t.language # self.language

RECURSIVE is_substitutable(_, _, _)

\* is_substitutable without the test that the bound variable is not in t.
is_substitutable_ignoring_binder(self, x, t) ==
    CASE self.tag = "EqualityFormula" -> TRUE
      [] self.tag = "RelationFormula" -> TRUE
      [] self.tag = "NegationFormula" -> is_substitutable(self.args[1], x, t)
      [] self.tag = "DisjunctionFormula" ->
            is_substitutable(self.args[1], x, t)
                /\ is_substitutable(self.args[2], x, t)
      [] self.tag = "QuantifiedFormula" ->
            ~variable_free_in_formula(self.args[1], x)
                \/ is_substitutable(self.args[1], x, t)

\* is_substitutable that asks one side of a disjunction only.
is_substitutable_either_side(self, x, t) ==
    CASE self.tag = "EqualityFormula" -> TRUE
      [] self.tag = "RelationFormula" -> TRUE
      [] self.tag = "NegationFormula" -> is_substitutable(self.args[1], x, t)
      [] self.tag = "DisjunctionFormula" ->
            is_substitutable(self.args[1], x, t)
                \/ is_substitutable(self.args[2], x, t)
      [] self.tag = "QuantifiedFormula" ->
            ~variable_free_in_formula(self.args[1], x)
                \/ (self.sym \notin get_variable_symbols(t)
                    /\ is_substitutable(self.args[1], x, t))

is_substitutable(self, x, t) ==
    CASE self.tag = "EqualityFormula" -> TRUE
      [] self.tag = "RelationFormula" -> TRUE
      [] self.tag = "NegationFormula" -> is_substitutable(self.args[1], x, t)
      [] self.tag = "DisjunctionFormula" ->
            is_substitutable(self.args[1], x, t)
                /\ is_substitutable(self.args[2], x, t)
      [] self.tag = "QuantifiedFormula" ->
            ~variable_free_in_formula(self.args[1], x)
                \/ (self.sym \notin get_variable_symbols(t)
                    /\ is_substitutable(self.args[1], x, t))

\* MergeTwo that returns the first witness when the two differ.
MergeTwo_first_witness(candidate_one, candidate_two) ==
    IF candidate_one = ValueError \/ candidate_two = ValueError THEN ValueError
    ELSE IF candidate_one = None THEN candidate_two
    ELSE candidate_one

\* The tail shared by EqualityFormula.find_substituted_term and
\* DisjunctionFormula.find_substituted_term.
MergeTwo(candidate_one, candidate_two) ==
    IF candidate_one = ValueError \/ candidate_two = ValueError THEN ValueError
    ELSE IF candidate_one = None THEN candidate_two
    ELSE IF candidate_two = None THEN candidate_one
    ELSE IF candidate_one = candidate_two THEN candidate_one
    ELSE ValueError

\* QuantifiedFormula.find_substituted_term once f is known to be quantified.
RECURSIVE formula_find_substituted_term(_, _, _)

\* QuantifiedFormula.find_substituted_term that compares the bodies whatever
\* the bound variable.
quantified_find_in_body(self, f, x) ==
    formula_find_substituted_term(self.args[1], f.args[1], x)

\* QuantifiedFormula.find_substituted_term that, for v == x, compares the
\* bound variables and not the bodies.
quantified_find_bound_only(self, f, x) ==
    IF self.sym = x
    THEN IF self.sym = f.sym THEN None ELSE ValueError
    ELSE formula_find_substituted_term(self.args[1], f.args[1], x)

quantified_find_substituted_term(self, f, x) ==
    IF self.sym = x
    THEN IF self = f THEN None ELSE ValueError
    ELSE formula_find_substituted_term(self.args[1], f.args[1], x)

formula_find_substituted_term(self, f, x) ==
    IF self.language # f.language THEN ValueError
    ELSE CASE self.tag = "EqualityFormula" ->
                IF f.tag # "EqualityFormula" THEN ValueError
                ELSE MergeTwo(
                        term_find_substituted_term(self.args[1], f.args[1], x),
                        term_find_substituted_term(self.args[2], f.args[2], x))
           [] self.tag = "RelationFormula" ->
                IF f.tag # "RelationFormula" \/ self.sym # f.sym THEN ValueError
                ELSE MergeCandidates(
                        [i \in 1..Len(self.args) |->
                            term_find_substituted_term(self.args[i], f.args[i], x)])
           [] self.tag = "NegationFormula" ->
                IF f.tag # "NegationFormula" THEN ValueError
                ELSE formula_find_substituted_term(self.args[1], f.args[1], x)
           [] self.tag = "DisjunctionFormula" ->
                IF f.tag # "DisjunctionFormula" THEN ValueError
                ELSE MergeTwo(
                        formula_find_substituted_term(self.args[1], f.args[1], x),
                        formula_find_substituted_term(self.args[2], f.args[2], x))
           [] self.tag = "QuantifiedFormula" ->
                IF f.tag # "QuantifiedFormula" THEN ValueError
                ELSE quantified_find_substituted_term(self, f, x)

\* --------------------------------------------------------- formula parser

binary_logical_connectives == {"||", "&&", "->", "<->"}

\* The for loop of get_top_level_logical_connective from index i on
\* (indices from 0): the index at which it breaks, or the last index when
\* it runs to its end.
RECURSIVE connective_scan(_, _, _)

\* connective_scan without the test of the bracket depth.
connective_scan_any_depth(symbols, i, difference) ==
    LET symbol == symbols[i + 1] IN
    IF symbol \in binary_logical_connectives THEN i
    ELSE IF i = Len(symbols) - 1 THEN i
    ELSE connective_scan(symbols, i + 1, difference)

connective_scan(symbols, i, difference) ==
    LET symbol == symbols[i + 1] IN
    IF symbol \in binary_logical_connectives /\ difference = 1 THEN i
    ELSE IF i = Len(symbols) - 1 THEN i
    ELSE connective_scan(symbols, i + 1,
            IF symbol = "(" THEN difference + 1
            ELSE IF symbol = ")" THEN difference - 1
            ELSE difference)

\* [raised |-> TRUE] stands for an exception, which the field exception
\* names, and [raised |-> FALSE, index |-> i] for the returned index i (from
\* 0). The loop over an empty list assigns nothing to i, and the test that
\* follows the loop reads i.
get_top_level_logical_connective(symbols) ==
    LET i == connective_scan(symbols, 0, 0) IN
    IF symbols = <<>>
    THEN [raised |-> TRUE, index |-> 0, exception |-> UnboundLocalError]
    ELSE IF 1 < i /\ i < Len(symbols) - 2
    THEN [raised |-> FALSE, index |-> i, exception |-> None]
    ELSE [raised |-> TRUE, index |-> 0, exception |-> ValueError]

create_existential_formula(P, v) ==
    IF P = ValueError THEN ValueError
    ELSE NegationFormula(P.language,
            QuantifiedFormula(P.language, v, NegationFormula(P.language, P)))

\* create_conjunction_formula without the outer negation.
create_conjunction_without_negation(P, Q) ==
    IF Raised(<<P, Q>>) THEN ValueError
    ELSE DisjunctionFormula(P.language,
            NegationFormula(P.language, P), NegationFormula(P.language, Q))

create_conjunction_formula(P, Q) ==
    IF Raised(<<P, Q>>) THEN ValueError
    ELSE NegationFormula(P.language,
            DisjunctionFormula(P.language,
                NegationFormula(P.language, P), NegationFormula(P.language, Q)))

create_implication_formula(P, Q) ==
    IF Raised(<<P, Q>>) THEN ValueError
    ELSE DisjunctionFormula(P.language, NegationFormula(P.language, P), Q)

create_equivalence_formula(P, Q) ==
    IF Raised(<<P, Q>>) THEN ValueError
    ELSE create_conjunction_formula(
            create_implication_formula(P, Q), create_implication_formula(Q, P))

\* The loop of the "=" branch with one symbol taken for t2, whatever follows.
equality_try_splits_ignoring_rest(language, symbols) ==
    FirstSuccess([k \in 1..(Len(symbols) - 2) |->
        LET split_index == k + 1 IN
        EqualityFormula(language,
            string_to_term(language, Slice(symbols, 1, split_index)),
            string_to_term(language, Slice(symbols, split_index, split_index + 1)))])

\* The loop over split_index of the "=" branch (split_index from 2 to
\* len(symbols) - 1).
equality_try_splits(language, symbols) ==
    FirstSuccess([k \in 1..(Len(symbols) - 2) |->
        LET split_index == k + 1 IN
        EqualityFormula(language,
            string_to_term(language, Slice(symbols, 1, split_index)),
            string_to_term(language, Slice(symbols, split_index, Len(symbols))))])

\* The loop over the tuples of split indices of the relation branch.
relation_try_splits(language, symbols, splits) ==
    FirstSuccess([k \in 1..Len(splits) |->
        RelationFormula(language, symbols[1],
                        term_arguments(language, symbols, splits[k]))])

RECURSIVE string_to_formula(_, _)

\* The branch of string_to_formula that follows the bracket dispatch: the
\* two sides of the top-level connective, combined as the connective says.
binary_formula(language, symbols) ==
    LET located == get_top_level_logical_connective(symbols)
        connective_index == located.index
        connective == symbols[connective_index + 1]
        left == string_to_formula(language, Slice(symbols, 1, connective_index))
        right == string_to_formula(language,
                    Slice(symbols, connective_index + 1, Len(symbols) - 1))
    IN IF located.raised THEN ValueError
       ELSE CASE connective = "||" -> DisjunctionFormula(language, left, right)
              [] connective = "&&" -> create_conjunction_formula(left, right)
              [] connective = "->" -> create_implication_formula(left, right)
              [] connective = "<->" -> create_equivalence_formula(left, right)
              [] OTHER -> None

string_to_formula(language, string) ==
    LET symbols == string
        arity == get_relation_arity(language, symbols[1])
        is_quantifier(q) ==
            /\ Len(symbols) >= 6
            /\ symbols[2] = q
            /\ is_variable_symbol(symbols[3])
            /\ symbols[4] = ")"
            /\ symbols[5] = "("
    IN IF Len(symbols) < 2 THEN ValueError
       ELSE IF symbols[1] = "="
       THEN equality_try_splits(language, symbols)
       ELSE IF arity # 0 /\ Len(symbols) >= arity + 1
       THEN IF arity = 1
            THEN RelationFormula(language, symbols[1],
                    <<string_to_term(language, Tail(symbols))>>)
            ELSE relation_try_splits(language, symbols,
                    combinations(2, Len(symbols), arity - 1))
       ELSE IF symbols[1] # "(" \/ symbols[Len(symbols)] # ")" THEN ValueError
       ELSE IF symbols[2] = "!!"
       THEN NegationFormula(language,
                string_to_formula(language, Slice(symbols, 2, Len(symbols) - 1)))
       ELSE IF is_quantifier("AA")
       THEN QuantifiedFormula(language, symbols[3],
                string_to_formula(language, Slice(symbols, 5, Len(symbols) - 1)))
       ELSE IF is_quantifier("EE")
       THEN create_existential_formula(
                string_to_formula(language, Slice(symbols, 5, Len(symbols) - 1)),
                symbols[3])
       ELSE binary_formula(language, symbols)

\* ------------------------------------------------------- logical axioms

\* The loop of create_conjunction_of_equalities, up to the n-th pair.
RECURSIVE conjunctions_upto(_, _, _)
conjunctions_upto(language, variable_pairs, n) ==
    LET pair == variable_pairs[n]
        equality == EqualityFormula(language, VariableTerm(language, pair[1]),
                                    VariableTerm(language, pair[2]))
    IN IF n = 1 THEN equality
       ELSE create_conjunction_formula(
                conjunctions_upto(language, variable_pairs, n - 1), equality)

create_conjunction_of_equalities(language, variable_pairs) ==
    IF Len(variable_pairs) < 1 THEN ValueError
    ELSE conjunctions_upto(language, variable_pairs, Len(variable_pairs))

is_equality_of_variables(formula) ==
    /\ formula.tag = "EqualityFormula"
    /\ formula.args[1].tag = "VariableTerm"
    /\ formula.args[2].tag = "VariableTerm"

\* [raised |-> TRUE] stands for the ValueError, [raised |-> FALSE, pairs |-> l]
\* for the returned list l of pairs of VariableTerms.
RECURSIVE get_variables_in_conjunction_of_equalities(_)
get_variables_in_conjunction_of_equalities(formula) ==
    LET error == [raised |-> TRUE, pairs |-> <<>>]
        disjunction == formula.args[1]
        last == disjunction.args[2].args[1]
        result == get_variables_in_conjunction_of_equalities(
                        disjunction.args[1].args[1])
    IN IF is_equality_of_variables(formula)
       THEN [raised |-> FALSE, pairs |-> <<formula.args>>]
       ELSE IF formula.tag # "NegationFormula" THEN error
       ELSE IF disjunction.tag # "DisjunctionFormula" THEN error
       ELSE IF disjunction.args[1].tag # "NegationFormula"
                \/ disjunction.args[2].tag # "NegationFormula" THEN error
       ELSE IF ~is_equality_of_variables(last) THEN error
       ELSE IF result.raised THEN error
       ELSE [raised |-> FALSE, pairs |-> Append(result.pairs, last.args)]

create_reflexivity_axiom(language, x) ==
    EqualityFormula(language, VariableTerm(language, x), VariableTerm(language, x))

is_reflexivity_axiom(formula) ==
    /\ formula.tag = "EqualityFormula"
    /\ formula.args[1].tag = "VariableTerm"
    /\ formula.args[2].tag = "VariableTerm"
    /\ formula.args[1] = formula.args[2]

\* [VariableTerm(language, pair[k]) for pair in variable_pairs]
variables_of_pairs(language, variable_pairs, k) ==
    [i \in 1..Len(variable_pairs) |-> VariableTerm(language, variable_pairs[i][k])]

create_function_substitution_axiom(language, variable_pairs, f) ==
    LET conjunctions == create_conjunction_of_equalities(language, variable_pairs)
        functions ==
            EqualityFormula(language,
                FunctionTerm(language, f,
                    variables_of_pairs(language, variable_pairs, 1)),
                FunctionTerm(language, f,
                    variables_of_pairs(language, variable_pairs, 2)))
    IN create_implication_formula(conjunctions, functions)

\* is_function_substitution_axiom without the comparison of the second
\* components.
is_function_substitution_axiom_first_only(formula) ==
    LET got == get_variables_in_conjunction_of_equalities(formula.args[1].args[1])
        Q == formula.args[2]
    IN /\ formula.tag = "DisjunctionFormula"
       /\ formula.args[1].tag = "NegationFormula"
       /\ ~got.raised
       /\ Q.tag = "EqualityFormula"
       /\ Q.args[1].tag = "FunctionTerm" /\ Q.args[2].tag = "FunctionTerm"
       /\ Q.args[1].sym = Q.args[2].sym
       /\ [i \in 1..Len(got.pairs) |-> got.pairs[i][1]] = Q.args[1].args

is_function_substitution_axiom(formula) ==
    LET got == get_variables_in_conjunction_of_equalities(formula.args[1].args[1])
        Q == formula.args[2]
    IN /\ formula.tag = "DisjunctionFormula"
       /\ formula.args[1].tag = "NegationFormula"
       /\ ~got.raised
       /\ Q.tag = "EqualityFormula"
       /\ Q.args[1].tag = "FunctionTerm" /\ Q.args[2].tag = "FunctionTerm"
       /\ Q.args[1].sym = Q.args[2].sym
       /\ [i \in 1..Len(got.pairs) |-> got.pairs[i][1]] = Q.args[1].args
       /\ [i \in 1..Len(got.pairs) |-> got.pairs[i][2]] = Q.args[2].args

create_relation_substitution_axiom(language, variable_pairs, R) ==
    LET conjunctions == create_conjunction_of_equalities(language, variable_pairs)
        relations ==
            create_implication_formula(
                RelationFormula(language, R,
                    variables_of_pairs(language, variable_pairs, 1)),
                RelationFormula(language, R,
                    variables_of_pairs(language, variable_pairs, 2)))
    IN create_implication_formula(conjunctions, relations)

is_relation_substitution_axiom(formula) ==
    LET got == get_variables_in_conjunction_of_equalities(formula.args[1].args[1])
        Q == formula.args[2]
    IN /\ formula.tag = "DisjunctionFormula"
       /\ formula.args[1].tag = "NegationFormula"
       /\ ~got.raised
       /\ Q.tag = "DisjunctionFormula"
       /\ Q.args[1].tag = "NegationFormula"
       /\ Q.args[1].args[1].tag = "RelationFormula"
       /\ Q.args[2].tag = "RelationFormula"
       /\ Q.args[1].args[1].sym = Q.args[2].sym
       /\ [i \in 1..Len(got.pairs) |-> got.pairs[i][1]] = Q.args[1].args[1].args
       /\ [i \in 1..Len(got.pairs) |-> got.pairs[i][2]] = Q.args[2].args

create_universal_instantiation_axiom(language, P, x, t) ==
    IF Raises_is_substitutable(P, x, t) THEN ValueError
    ELSE IF ~is_substitutable(P, x, t) THEN ValueError
    ELSE create_implication_formula(
            QuantifiedFormula(language, x, P), formula_substitute(P, x, t))

is_universal_instantiation_axiom(formula) ==
    /\ formula.tag = "DisjunctionFormula"
    /\ formula.args[1].tag = "NegationFormula"
    /\ formula.args[1].args[1].tag = "QuantifiedFormula"
    /\ formula_find_substituted_term(formula.args[1].args[1].args[1],
                                     formula.args[2],
                                     formula.args[1].args[1].sym) # ValueError

create_existential_generalization_axiom(language, P, x, t) ==
    IF Raises_is_substitutable(P, x, t) THEN ValueError
    ELSE IF ~is_substitutable(P, x, t) THEN ValueError
    ELSE create_implication_formula(
            formula_substitute(P, x, t), create_existential_formula(P, x))

is_existential_generalization_axiom(formula) ==
    /\ formula.tag = "DisjunctionFormula"
    /\ formula.args[1].tag = "NegationFormula"
    /\ formula.args[2].tag = "NegationFormula"
    /\ formula.args[2].args[1].tag = "QuantifiedFormula"
    /\ formula.args[2].args[1].args[1].tag = "NegationFormula"
    /\ formula_find_substituted_term(formula.args[2].args[1].args[1].args[1],
                                     formula.args[1].args[1],
                                     formula.args[2].args[1].sym) # ValueError

\* ------------------------------------------------------ inference rules

\* Gamma is the collection the caller passes, as the list of its elements:
\* the code takes its len and its first element. The outcome is
\* [raised |-> TRUE] for the ValueError, else the answer returned.
Answer(b) == [raised |-> FALSE, answer |-> b]

\* is_universal_quantifier_inference_rule without the test on the free
\* variables of psi.
is_universal_quantifier_inference_rule_any_variable(Gamma, theta) ==
    LET gamma == Gamma[1]
        psi == gamma.args[1].args[1]
        phi == gamma.args[2]
    IN IF Len(Gamma) # 1 THEN Answer(FALSE)
       ELSE IF gamma.language # theta.language
            THEN [raised |-> TRUE, answer |-> FALSE]
       ELSE IF gamma.tag # "DisjunctionFormula"
                \/ gamma.args[1].tag # "NegationFormula" THEN Answer(FALSE)
       ELSE IF theta.tag # "DisjunctionFormula"
                \/ theta.args[1].tag # "NegationFormula" THEN Answer(FALSE)
       ELSE IF theta.args[1].args[1] # psi THEN Answer(FALSE)
       ELSE IF theta.args[2].tag # "QuantifiedFormula" THEN Answer(FALSE)
       ELSE Answer(theta.args[2].args[1] = phi)

is_universal_quantifier_inference_rule(Gamma, theta) ==
    LET gamma == Gamma[1]
        psi == gamma.args[1].args[1]
        phi == gamma.args[2]
    IN IF Len(Gamma) # 1 THEN Answer(FALSE)
       ELSE IF gamma.language # theta.language
            THEN [raised |-> TRUE, answer |-> FALSE]
       ELSE IF gamma.tag # "DisjunctionFormula"
                \/ gamma.args[1].tag # "NegationFormula" THEN Answer(FALSE)
       ELSE IF theta.tag # "DisjunctionFormula"
                \/ theta.args[1].tag # "NegationFormula" THEN Answer(FALSE)
       ELSE IF theta.args[1].args[1] # psi THEN Answer(FALSE)
       ELSE IF theta.args[2].tag # "QuantifiedFormula" THEN Answer(FALSE)
       ELSE Answer(/\ theta.args[2].args[1] = phi
                   /\ ~variable_free_in_formula(psi, theta.args[2].sym))

\* is_existential_quantifier_inference_rule with the test on the free
\* variables made on phi.
is_existential_quantifier_inference_rule_free_in_phi(Gamma, theta) ==
    LET gamma == Gamma[1]
        phi == gamma.args[1].args[1]
        psi == gamma.args[2]
        negated == theta.args[1].args[1]
    IN IF Len(Gamma) # 1 THEN Answer(FALSE)
       ELSE IF gamma.language # theta.language
            THEN [raised |-> TRUE, answer |-> FALSE]
       ELSE IF gamma.tag # "DisjunctionFormula"
                \/ gamma.args[1].tag # "NegationFormula" THEN Answer(FALSE)
       ELSE IF theta.tag # "DisjunctionFormula"
                \/ theta.args[1].tag # "NegationFormula" THEN Answer(FALSE)
       ELSE IF \/ negated.tag # "NegationFormula"
               \/ negated.args[1].tag # "QuantifiedFormula"
               \/ negated.args[1].args[1].tag # "NegationFormula"
               \/ negated.args[1].args[1].args[1] # phi THEN Answer(FALSE)
       ELSE Answer(/\ theta.args[2] = psi
                   /\ ~variable_free_in_formula(phi, negated.args[1].sym))

is_existential_quantifier_inference_rule(Gamma, theta) ==
    LET gamma == Gamma[1]
        phi == gamma.args[1].args[1]
        psi == gamma.args[2]
        negated == theta.args[1].args[1]
    IN IF Len(Gamma) # 1 THEN Answer(FALSE)
       ELSE IF gamma.language # theta.language
            THEN [raised |-> TRUE, answer |-> FALSE]
       ELSE IF gamma.tag # "DisjunctionFormula"
                \/ gamma.args[1].tag # "NegationFormula" THEN Answer(FALSE)
       ELSE IF theta.tag # "DisjunctionFormula"
                \/ theta.args[1].tag # "NegationFormula" THEN Answer(FALSE)
       ELSE IF \/ negated.tag # "NegationFormula"
               \/ negated.args[1].tag # "QuantifiedFormula"
               \/ negated.args[1].args[1].tag # "NegationFormula"
               \/ negated.args[1].args[1].args[1] # phi THEN Answer(FALSE)
       ELSE Answer(/\ theta.args[2] = psi
                   /\ ~variable_free_in_formula(psi, negated.args[1].sym))

\* ----------------------------------------------------- dynamic dispatch

substitute(self, x, t) ==
    IF IsTerm(self) THEN term_substitute(self, x, t)
    ELSE formula_substitute(self, x, t)

find_substituted_term(self, other, x) ==
    IF IsTerm(self) THEN term_find_substituted_term(self, other, x)
    ELSE formula_find_substituted_term(self, other, x)

str(self) == IF IsTerm(self) THEN term_str(self) ELSE formula_str(self)

\* ------------------------------------------------------------ the machine

\* A client of the library holds one tree, built bottom-up with the
\* constructors, and then calls the operations of the library on it: a call
\* is kept with its arguments and its outcome, and a later call may take the
\* outcome of the call before it as an argument.
VARIABLES tree, call

vars == <<tree, call>>

L == "language1"

\* The leaves the trees are built from, and the terms put beside the tree
\* under construction when a constructor takes several children.
Leaves == {VariableTerm(L, "v1"), VariableTerm(L, "v2"), ConstantTerm(L, "a")}

\* The place of the tree under construction in a list of children.
Hole == [language |-> L, tag |-> "Hole", sym |-> "", args |-> <<>>]

Fill(pattern, u) ==
    [i \in 1..Len(pattern) |-> IF pattern[i] = Hole THEN u ELSE pattern[i]]

FunctionPatterns ==
    LET v1 == VariableTerm(L, "v1")
        a == ConstantTerm(L, "a")
    IN {<<"f1", <<Hole>>>>,
        <<"f3", <<Hole, a, v1>>>>,
        <<"f3", <<a, Hole, v1>>>>,
        <<"f3", <<v1, a, Hole>>>>,
        <<"f3", <<Hole, Hole, a>>>>}

AtomPatterns ==
    LET v1 == VariableTerm(L, "v1")
        a == ConstantTerm(L, "a")
    IN {<<"=", <<Hole, v1>>>>,
        <<"=", <<Hole, Hole>>>>,
        <<"r2", <<a, Hole>>>>,
        <<"r2", <<Hole, Hole>>>>}

\* The formula put beside the formula under construction in a disjunction.
Beside == EqualityFormula(L, VariableTerm(L, "v1"), VariableTerm(L, "v2"))

\* The terms substituted for a variable.
SubstitutedTerms ==
    {ConstantTerm(L, "a"), VariableTerm(L, "v1"), VariableTerm(L, "v2"),
     FunctionTerm(L, "f1", <<VariableTerm(L, "v1")>>)}

Variables == {"v1", "v2"}

\* The tree u with every quantifier over v made a quantifier over w.
RECURSIVE Rebound(_, _, _)
Rebound(u, v, w) ==
    [u EXCEPT !.sym = IF u.tag = "QuantifiedFormula" /\ u.sym = v THEN w
                      ELSE u.sym,
              !.args = [i \in 1..Len(u.args) |-> Rebound(u.args[i], v, w)]]

\* The tree u with every leaf term of symbol from made the leaf term to.
RECURSIVE Relabelled(_, _, _)
Relabelled(u, from, to) ==
    IF u.args = <<>> THEN (IF u.sym = from THEN to ELSE u)
    ELSE [u EXCEPT !.args =
            [i \in 1..Len(u.args) |-> Relabelled(u.args[i], from, to)]]

\* The tree u with the leaves v1 of its first child made a and its other
\* leaves v1 made to.
FirstRelabelled(u, to) ==
    IF u.args = <<>> THEN u
    ELSE Relabelled([u EXCEPT !.args[1] =
                        Relabelled(@, "v1", ConstantTerm(L, "a"))], "v1", to)

\* The trees a pattern is compared with: the pattern itself, trees of its
\* shape that differ from it in a bound variable or in a leaf, on one side
\* or on both, and a tree of another shape.
Candidates(u) ==
    {u, Rebound(u, "v1", "v2"), Rebound(u, "v2", "v3"),
     FirstRelabelled(u, VariableTerm(L, "v1")),
     FirstRelabelled(u, ConstantTerm(L, "b")),
     IF IsFormula(u) THEN NegationFormula(L, u) ELSE ConstantTerm(L, "c"),
     Relabelled(u, "v1", ConstantTerm(L, "a")),
     Relabelled(u, "v1", VariableTerm(L, "v2")),
     Relabelled(u, "v2", ConstantTerm(L, "b")),
     Relabelled(u, "a", ConstantTerm(L, "b")),
     Relabelled(u, "a", VariableTerm(L, "v1"))}

\* The trees that are built are those whose rendering fits the bound.
Fits(u) == Len(str(u)) <= IF IsTerm(u) THEN MaxTermLen ELSE MaxLen

NoCall ==
    [op |-> "none", x |-> "", t |-> None, f |-> None, string |-> <<>>,
     out |-> None, answer |-> FALSE, index |-> 0,
     language |-> "", symbol |-> "", arguments |-> <<>>, variables |-> {},
     lists |-> <<>>, reference |-> 0,
     made |-> [raised |-> FALSE, constants |-> {}, functions |-> <<>>,
               relations |-> <<>>]]

Init ==
    /\ tree \in Leaves
    /\ call = NoCall

NewFunctionTerm ==
    /\ call = NoCall
    /\ IsTerm(tree)
    /\ \E p \in FunctionPatterns :
        tree' = FunctionTerm(L, p[1], Fill(p[2], tree))
    /\ Fits(tree')
    /\ call' = NoCall

NewAtomicFormula ==
    /\ call = NoCall
    /\ IsTerm(tree)
    /\ \E p \in AtomPatterns :
        tree' = IF p[1] = "=" THEN EqualityFormula(L, Fill(p[2], tree)[1],
                                                  Fill(p[2], tree)[2])
                ELSE RelationFormula(L, p[1], Fill(p[2], tree))
    /\ Fits(tree')
    /\ call' = NoCall

NewNegationFormula ==
    /\ call = NoCall
    /\ IsFormula(tree)
    /\ tree' = NegationFormula(L, tree)
    /\ Fits(tree')
    /\ call' = NoCall

NewDisjunctionFormula ==
    /\ call = NoCall
    /\ IsFormula(tree)
    /\ \/ tree' = DisjunctionFormula(L, tree, Beside)
       \/ tree' = DisjunctionFormula(L, Beside, tree)
    /\ Fits(tree')
    /\ call' = NoCall

NewQuantifiedFormula ==
    /\ call = NoCall
    /\ IsFormula(tree)
    /\ \E v \in Variables : tree' = QuantifiedFormula(L, v, tree)
    /\ Fits(tree')
    /\ call' = NoCall

\* str(tree)
Str ==
    /\ call = NoCall
    /\ call' = [NoCall EXCEPT !.op = "str", !.string = str(tree)]
    /\ UNCHANGED tree

\* string_to_term / string_to_formula on the string the last call returned.
Parse ==
    /\ call.op = "str"
    /\ call' = [NoCall EXCEPT
                    !.op = IF IsTerm(tree) THEN "string_to_term"
                           ELSE "string_to_formula",
                    !.string = call.string,
                    !.out = IF IsTerm(tree) THEN string_to_term(L, call.string)
                            ELSE string_to_formula(L, call.string)]
    /\ UNCHANGED tree

\* tree.substitute(x, t)
Substitute ==
    /\ call = NoCall
    /\ \E x \in Variables, t \in SubstitutedTerms :
        call' = [NoCall EXCEPT !.op = "substitute", !.x = x, !.t = t,
                               !.out = substitute(tree, x, t)]
    /\ UNCHANGED tree

\* tree.is_substitutable(x, t), for the x and t of the substitution just made;
\* the substituted tree is kept beside the answer.
IsSubstitutable ==
    /\ call.op = "substitute"
    /\ call.out # ValueError
    /\ IsFormula(tree)
    /\ call' = [NoCall EXCEPT !.op = "is_substitutable", !.x = call.x,
                               !.t = call.t, !.f = call.out,
                               !.answer = is_substitutable(tree, call.x, call.t)]
    /\ UNCHANGED tree

\* tree.find_substituted_term(f, x), for f the tree the substitution just
\* made returned and x its variable.
FindSubstituted ==
    /\ call.op = "substitute"
    /\ call.out # ValueError
    /\ call' = [NoCall EXCEPT !.op = "find_substituted_term", !.x = call.x,
                               !.t = call.t, !.f = call.out,
                               !.out = find_substituted_term(tree, call.out, call.x)]
    /\ UNCHANGED tree

\* tree.find_substituted_term(f, x), for f a tree built apart from the
\* pattern.
FindSubstitutedIn ==
    /\ call = NoCall
    /\ \E x \in Variables, f \in Candidates(tree) :
        call' = [NoCall EXCEPT !.op = "find_substituted_term", !.x = x,
                               !.f = f,
                               !.out = find_substituted_term(tree, f, x)]
    /\ UNCHANGED tree

\* The symbols put into a string that is parsed: a symbol of no language, a
\* bracket and a constant.
Tokens == {"zz", ")", "a"}

\* The strings one deletion, insertion or replacement of a symbol away from
\* string.
Garbled(string) ==
    LET before(i) == SubSeq(string, 1, i - 1)
        from(i) == SubSeq(string, i, Len(string))
    IN ({before(i) \o from(i + 1) : i \in 1..Len(string)}
        \cup {before(i) \o <<c>> \o from(i) :
                    i \in 1..(Len(string) + 1), c \in Tokens}
        \cup {before(i) \o <<c>> \o from(i + 1) :
                    i \in 1..Len(string), c \in Tokens}) \ {string}

\* string_to_term / string_to_formula on a string that is not the rendering
\* of the tree.
ParseGarbled ==
    /\ call.op = "str"
    /\ Len(call.string) <= MaxGarbledLen
    /\ \E string \in Garbled(call.string),
          parser \in {"string_to_term", "string_to_formula"} :
        call' = [NoCall EXCEPT
                    !.op = parser,
                    !.string = string,
                    !.out = IF parser = "string_to_term"
                            THEN string_to_term(L, string)
                            ELSE string_to_formula(L, string)]
    /\ UNCHANGED tree

\* The strings that string gives when "||" is written as another binary
\* connective and "AA" as "EE", at one place or at every place.
Sugared(string) ==
    LET places(symbol) == {i \in 1..Len(string) : string[i] = symbol}
        everywhere(c, q) ==
            [i \in 1..Len(string) |->
                IF string[i] = "||" THEN c
                ELSE IF string[i] = "AA" THEN q
                ELSE string[i]]
    IN ({everywhere(c, q) : c \in binary_logical_connectives, q \in {"AA", "EE"}}
        \cup {[string EXCEPT ![i] = c] :
                    i \in places("||"), c \in binary_logical_connectives}
        \cup {[string EXCEPT ![i] = "EE"] : i \in places("AA")}) \ {string}

\* string_to_formula on the rendering of the tree written with shorthand.
ParseShorthand ==
    /\ call.op = "str"
    /\ IsFormula(tree)
    /\ \E string \in Sugared(call.string) :
        call' = [NoCall EXCEPT !.op = "string_to_formula",
                               !.string = string,
                               !.out = string_to_formula(L, string)]
    /\ UNCHANGED tree

\* get_top_level_logical_connective on the symbols of the rendering of the
\* tree, as they are, garbled, or written with shorthand: out is the
\* exception raised, or None beside the index returned.
TopLevelConnective ==
    /\ call.op = "str"
    /\ \E symbols \in {call.string} \cup Sugared(call.string)
            \cup (IF Len(call.string) <= MaxGarbledLen
                  THEN Garbled(call.string) ELSE {}) :
        LET located == get_top_level_logical_connective(symbols) IN
        call' = [NoCall EXCEPT !.op = "get_top_level_logical_connective",
                               !.string = symbols,
                               !.out = located.exception,
                               !.index = located.index]
    /\ UNCHANGED tree

\* The names given to a constructor: function, relation, constant and
\* variable symbols of language1 and of language2, and a symbol of neither.
Symbols == {"f1", "f2", "f3", "r2", "a", "y", "v1", "zz"}

\* A tree of language2 of the kind of u.
Foreign(u) ==
    LET a == ConstantTerm("language2", "a") IN
    IF IsTerm(u) THEN a ELSE EqualityFormula("language2", a, a)

\* The lists of children given to a constructor beside or instead of u.
ArgumentLists(u) ==
    LET o == Foreign(u) IN
    {<<>>, <<u>>, <<o>>, <<u, u>>, <<u, o>>, <<o, o>>,
     <<u, u, u>>, <<u, o, u>>, <<o, o, o>>, <<u, u, u, u>>}

\* The constructors that take children of the kind of u, by class name.
Constructors(u) ==
    IF IsTerm(u)
    THEN {"VariableTerm", "ConstantTerm", "FunctionTerm", "EqualityFormula",
          "RelationFormula"}
    ELSE {"NegationFormula", "DisjunctionFormula", "QuantifiedFormula"}

\* The number of children in the signature of a constructor that takes them
\* one by one.
Parameters ==
    [VariableTerm |-> 0, ConstantTerm |-> 0, EqualityFormula |-> 2,
     NegationFormula |-> 1, DisjunctionFormula |-> 2, QuantifiedFormula |-> 1]

\* The list objects of a call are kept by identity, lists[id] being the
\* elements of the list of identity id. The list itself, for self.arguments.
list_alias(lists, id) == [lists |-> lists, id |-> id]

\* arguments.copy(): a new list with the elements of the list of identity id.
list_copy(lists, id) ==
    [lists |-> Append(lists, lists[id]), id |-> Len(lists) + 1]

\* A call of a constructor, with arguments it may refuse: out is the tree
\* built or the ValueError raised. The caller's list of arguments has
\* identity 1, and reference is the identity of the list that FunctionTerm
\* and RelationFormula keep as self.arguments.
Construct ==
    /\ call = NoCall
    /\ Len(str(tree)) <= MaxChildLen
    /\ \E op \in Constructors(tree), language \in DOMAIN Languages,
          symbol \in Symbols, arguments \in ArgumentLists(tree) :
        /\ op \in DOMAIN Parameters => Len(arguments) = Parameters[op]
        /\ call' = [NoCall EXCEPT
                !.op = op, !.language = language, !.symbol = symbol,
                !.arguments = arguments,
                !.lists =
                    IF /\ op = "FunctionTerm"
                       /\ FunctionTerm(language, symbol, arguments) # ValueError
                       \/ /\ op = "RelationFormula"
                          /\ RelationFormula(language, symbol, arguments) # ValueError
                    THEN list_copy(<<arguments>>, 1).lists
                    ELSE <<arguments>>,
                !.reference =
                    IF /\ op = "FunctionTerm"
                       /\ FunctionTerm(language, symbol, arguments) # ValueError
                       \/ /\ op = "RelationFormula"
                          /\ RelationFormula(language, symbol, arguments) # ValueError
                    THEN list_copy(<<arguments>>, 1).id
                    ELSE 0,
                !.out =
                    CASE op = "VariableTerm" -> VariableTerm(language, symbol)
                      [] op = "ConstantTerm" -> ConstantTerm(language, symbol)
                      [] op = "FunctionTerm" ->
                            FunctionTerm(language, symbol, arguments)
                      [] op = "EqualityFormula" ->
                            EqualityFormula(language, arguments[1], arguments[2])
                      [] op = "RelationFormula" ->
                            RelationFormula(language, symbol, arguments)
                      [] op = "NegationFormula" ->
                            NegationFormula(language, arguments[1])
                      [] op = "DisjunctionFormula" ->
                            DisjunctionFormula(language, arguments[1],
                                               arguments[2])
                      [] op = "QuantifiedFormula" ->
                            QuantifiedFormula(language, symbol, arguments[1])]
    /\ UNCHANGED tree

\* The arguments given to substitute and is_substitutable of which one at
\* least is not what the method takes: x a constant or a symbol of no
\* language, t a term of language2.
RefusedArguments ==
    {<<x, t>> \in (Variables \cup {"a", "zz"})
                    \X {ConstantTerm(L, "a"), ConstantTerm("language2", "a")} :
        ~is_variable_symbol(x) \/ t.language # L}

\* tree.substitute(x, t) with such arguments.
SubstituteRefused ==
    /\ call = NoCall
    /\ \E arguments \in RefusedArguments :
        call' = [NoCall EXCEPT
                    !.op = "substitute", !.x = arguments[1], !.t = arguments[2],
                    !.out = substitute(tree, arguments[1], arguments[2])]
    /\ UNCHANGED tree

\* tree.is_substitutable(x, t) with such arguments: out is the ValueError
\* raised, if any.
IsSubstitutableRefused ==
    /\ call = NoCall
    /\ IsFormula(tree)
    /\ \E arguments \in RefusedArguments :
        LET x == arguments[1]
            t == arguments[2]
            raises == Raises_is_substitutable(tree, x, t)
        IN call' = [NoCall EXCEPT
                        !.op = "is_substitutable", !.x = x, !.t = t,
                        !.out = IF raises THEN ValueError ELSE None,
                        !.answer = IF raises THEN FALSE
                                   ELSE is_substitutable(tree, x, t)]
    /\ UNCHANGED tree

\* tree.get_free_variables()
GetFreeVariables ==
    /\ call = NoCall
    /\ IsFormula(tree)
    /\ call' = [NoCall EXCEPT !.op = "get_free_variables",
                               !.variables = get_free_variables(tree)]
    /\ UNCHANGED tree

\* tree.is_sentence()
IsSentence ==
    /\ call = NoCall
    /\ IsFormula(tree)
    /\ call' = [NoCall EXCEPT !.op = "is_sentence",
                               !.answer = is_sentence(tree)]
    /\ UNCHANGED tree

\* tree.variable_free_in_formula(variable)
VariableFreeInFormula ==
    /\ call = NoCall
    /\ IsFormula(tree)
    /\ \E variable \in VariableSymbols :
        call' = [NoCall EXCEPT !.op = "variable_free_in_formula",
                               !.x = variable,
                               !.answer = variable_free_in_formula(tree, variable)]
    /\ UNCHANGED tree

\* The caller changes the list it gave to FunctionTerm or RelationFormula,
\* after the constructor has returned.
MutateArguments ==
    /\ call.op \in {"FunctionTerm", "RelationFormula"}
    /\ call.out # ValueError
    /\ call.lists[1] = call.arguments
    /\ \E mutated \in {<<>>, Tail(call.lists[1]), Append(call.lists[1], tree),
                        [call.lists[1] EXCEPT ![1] = Foreign(tree)]} :
        call' = [call EXCEPT !.lists[1] = mutated]
    /\ UNCHANGED tree

\* The lists of at most three pairs of variable names made of x, "v1" and
\* "v2".
VariablePairs(x) ==
    LET pairs == {<<x, "v1">>, <<"v2", x>>, <<"v1", "v1">>} IN
    UNION {[1..n -> pairs] : n \in 0..3}

\* create_reflexivity_axiom, create_function_substitution_axiom and
\* create_relation_substitution_axiom, with the symbol of the leaf held as a
\* variable name.
CreateEqualityAxiom ==
    /\ call = NoCall
    /\ IsTerm(tree) /\ tree.args = <<>>
    /\ \/ call' = [NoCall EXCEPT !.op = "create_reflexivity_axiom",
                                  !.x = tree.sym,
                                  !.out = create_reflexivity_axiom(L, tree.sym)]
       \/ \E variable_pairs \in VariablePairs(tree.sym),
              symbol \in {"f1", "f3", "r2", "zz"} :
            \/ call' = [NoCall EXCEPT
                    !.op = "create_function_substitution_axiom",
                    !.arguments = variable_pairs, !.symbol = symbol,
                    !.out = create_function_substitution_axiom(
                                L, variable_pairs, symbol)]
            \/ call' = [NoCall EXCEPT
                    !.op = "create_relation_substitution_axiom",
                    !.arguments = variable_pairs, !.symbol = symbol,
                    !.out = create_relation_substitution_axiom(
                                L, variable_pairs, symbol)]
    /\ UNCHANGED tree

\* create_universal_instantiation_axiom and
\* create_existential_generalization_axiom on the formula held.
CreateQuantifierAxiom ==
    /\ call = NoCall
    /\ IsFormula(tree)
    /\ \E x \in Variables, t \in SubstitutedTerms :
        \/ call' = [NoCall EXCEPT
                !.op = "create_universal_instantiation_axiom",
                !.x = x, !.t = t,
                !.out = create_universal_instantiation_axiom(L, tree, x, t)]
        \/ call' = [NoCall EXCEPT
                !.op = "create_existential_generalization_axiom",
                !.x = x, !.t = t,
                !.out = create_existential_generalization_axiom(L, tree, x, t)]
    /\ UNCHANGED tree

\* The recognizer of an axiom on the formula its creator just returned.
RecognizeCreated ==
    /\ call.op \in {"create_reflexivity_axiom",
                    "create_function_substitution_axiom",
                    "create_relation_substitution_axiom",
                    "create_universal_instantiation_axiom",
                    "create_existential_generalization_axiom"}
    /\ call.out # ValueError
    /\ call' = [call EXCEPT
            !.f = call.out,
            !.out = None,
            !.op = CASE call.op = "create_reflexivity_axiom" ->
                            "is_reflexivity_axiom"
                     [] call.op = "create_function_substitution_axiom" ->
                            "is_function_substitution_axiom"
                     [] call.op = "create_relation_substitution_axiom" ->
                            "is_relation_substitution_axiom"
                     [] call.op = "create_universal_instantiation_axiom" ->
                            "is_universal_instantiation_axiom"
                     [] call.op = "create_existential_generalization_axiom" ->
                            "is_existential_generalization_axiom",
            !.answer =
                CASE call.op = "create_reflexivity_axiom" ->
                            is_reflexivity_axiom(call.out)
                  [] call.op = "create_function_substitution_axiom" ->
                            is_function_substitution_axiom(call.out)
                  [] call.op = "create_relation_substitution_axiom" ->
                            is_relation_substitution_axiom(call.out)
                  [] call.op = "create_universal_instantiation_axiom" ->
                            is_universal_instantiation_axiom(call.out)
                  [] call.op = "create_existential_generalization_axiom" ->
                            is_existential_generalization_axiom(call.out)]
    /\ UNCHANGED tree

\* is_universal_instantiation_axiom on ( ( AA x ) ( tree ) -> R ), for R the
\* tree some substitution for x returned (substitute does not ask whether the
\* term is substitutable) or a tree built apart from it, and on the tree
\* itself.
RecognizeInstantiation ==
    /\ call = NoCall
    /\ IsFormula(tree)
    /\ Len(str(tree)) <= MaxBodyLen
    /\ \E x \in Variables :
       \E R \in Candidates(tree)
                \cup {formula_substitute(tree, x, t) : t \in SubstitutedTerms} :
       \E F \in {tree, create_implication_formula(
                            QuantifiedFormula(L, x, tree), R)} :
            call' = [NoCall EXCEPT
                        !.op = "is_universal_instantiation_axiom",
                        !.x = x, !.f = F,
                        !.answer = is_universal_instantiation_axiom(F)]
    /\ UNCHANGED tree

Reverse(list) == [i \in 1..Len(list) |-> list[Len(list) + 1 - i]]

\* The two applications of the consequent of a substitution axiom.
Applications(F) ==
    IF F.args[2].tag = "EqualityFormula"
    THEN <<F.args[2].args[1], F.args[2].args[2]>>
    ELSE <<F.args[2].args[1].args[1], F.args[2].args[2]>>

\* The substitution axiom F with A1 and A2 for its two applications.
WithApplications(F, A1, A2) ==
    IF F.args[2].tag = "EqualityFormula"
    THEN [F EXCEPT !.args[2].args = <<A1, A2>>]
    ELSE [F EXCEPT !.args[2].args = <<NegationFormula(F.language, A1), A2>>]

\* Formulas a client builds that are a substitution axiom or differ from one
\* in the order of the arguments, in the number of equalities, in a symbol
\* or in a variable.
Mangled(F, variable_pairs) ==
    LET A == Applications(F)
        conjunctions == F.args[1].args[1]
        other == IF F.args[2].tag = "EqualityFormula"
                 THEN create_function_substitution_axiom(
                            "language2", variable_pairs, "f1")
                 ELSE create_relation_substitution_axiom(
                            "language2", variable_pairs, "r2")
    IN {F,
        WithApplications(F, A[1], [A[2] EXCEPT !.args = Reverse(@)]),
        WithApplications(F, [A[1] EXCEPT !.args = Reverse(@)],
                            [A[2] EXCEPT !.args = Reverse(@)]),
        WithApplications(F, A[2], A[1]),
        WithApplications(F, A[1], A[1]),
        Relabelled(F, "v1", VariableTerm(L, "v2")),
        Relabelled(F, "v1", ConstantTerm(L, "a")),
        IF conjunctions.tag = "NegationFormula"
        THEN [F EXCEPT !.args[1].args[1] = conjunctions.args[1].args[1].args[1]]
        ELSE [F EXCEPT !.args[1].args[1] =
                    create_conjunction_formula(conjunctions, conjunctions)],
        IF other = ValueError THEN F
        ELSE WithApplications(other, Applications(other)[1],
                [Applications(other)[2] EXCEPT
                    !.sym = IF @ = "f1" THEN "f2" ELSE "r3"])}

\* is_function_substitution_axiom and is_relation_substitution_axiom on a
\* formula made from the axiom just created, and on the formula held.
RecognizeSubstitution ==
    /\ \E F \in IF /\ call.op \in {"create_function_substitution_axiom",
                                     "create_relation_substitution_axiom"}
                     /\ call.out # ValueError
                  THEN Mangled(call.out, call.arguments)
                  ELSE IF call = NoCall /\ IsFormula(tree) THEN {tree}
                  ELSE {} :
        \/ call' = [call EXCEPT !.op = "is_function_substitution_axiom",
                                !.f = F, !.out = None,
                                !.answer = is_function_substitution_axiom(F)]
        \/ call' = [call EXCEPT !.op = "is_relation_substitution_axiom",
                                !.f = F, !.out = None,
                                !.answer = is_relation_substitution_axiom(F)]
    /\ UNCHANGED tree

\* The pairs of formulas an implication is made of: the formula held and the
\* formula put beside it.
Sides(u) == {<<u, Beside>>, <<Beside, u>>, <<u, u>>}

\* The premises given to a quantifier rule: implications, and the formula
\* held.
Premises(u) ==
    {u} \cup {create_implication_formula(p[1], p[2]) : p \in Sides(u)}

\* The lists of at most two premises.
PremiseLists(u) ==
    {<<>>} \cup {<<gamma>> : gamma \in Premises(u)}
           \cup {<<gamma, u>> : gamma \in Premises(u)}

\* The conclusions from which the universal rule is tested: implications
\* whose right side is quantified, the formula held and a formula of the
\* other language.
UniversalConclusions(u) ==
    {u, Foreign(u)}
        \cup {create_implication_formula(p[1], QuantifiedFormula(L, x, p[2])) :
                    p \in Sides(u), x \in Variables}

\* is_universal_quantifier_inference_rule(Gamma, theta)
UniversalQuantifierRule ==
    /\ call = NoCall
    /\ IsFormula(tree)
    /\ Len(str(tree)) <= MaxBodyLen
    /\ \E Gamma \in PremiseLists(tree), theta \in UniversalConclusions(tree) :
        LET result == is_universal_quantifier_inference_rule(Gamma, theta) IN
        call' = [NoCall EXCEPT
                    !.op = "is_universal_quantifier_inference_rule",
                    !.arguments = Gamma, !.f = theta,
                    !.out = IF result.raised THEN ValueError ELSE None,
                    !.answer = result.answer]
    /\ UNCHANGED tree

\* The conclusions from which the existential rule is tested.
ExistentialConclusions(u) ==
    {u, Foreign(u)}
        \cup {create_implication_formula(
                    create_existential_formula(p[1], x), p[2]) :
                    p \in Sides(u), x \in Variables}
        \cup {create_implication_formula(
                    NegationFormula(L, QuantifiedFormula(L, x, u)), Beside) :
                    x \in Variables}

\* is_existential_quantifier_inference_rule(Gamma, theta)
ExistentialQuantifierRule ==
    /\ call = NoCall
    /\ IsFormula(tree)
    /\ Len(str(tree)) <= MaxBodyLen
    /\ \E Gamma \in PremiseLists(tree), theta \in ExistentialConclusions(tree) :
        LET result == is_existential_quantifier_inference_rule(Gamma, theta) IN
        call' = [NoCall EXCEPT
                    !.op = "is_existential_quantifier_inference_rule",
                    !.arguments = Gamma, !.f = theta,
                    !.out = IF result.raised THEN ValueError ELSE None,
                    !.answer = result.answer]
    /\ UNCHANGED tree

\* The symbols given to Language: two that may be used, a variable symbol,
\* a logical symbol, a shorthand symbol and a string with a space.
VocabularySymbols == {"a", "f1", "v1", "AA", "->", "r 2"}

\* The keys of the dictionaries given to Language.
ArityKeys == {-1, 0, 1, 2}

\* The dictionaries given to Language: of no item, of one item and of two.
ArityDictionaries ==
    {<<>>}
        \cup {<< <<n, {symbol}>> >> : n \in ArityKeys,
                                     symbol \in VocabularySymbols}
        \cup {<< <<1, {s1}>>, <<2, {s2}>> >> : s1 \in {"a", "f1"},
                                              s2 \in {"a", "f1"}}

\* Language(constants, functions, relations)
NewLanguage ==
    /\ call = NoCall
    /\ IsTerm(tree) /\ tree.args = <<>>
    /\ \E constants \in {{}} \cup {{symbol} : symbol \in VocabularySymbols},
          functions \in ArityDictionaries, relations \in ArityDictionaries :
        LET made == Language(constants, functions, relations) IN
        call' = [NoCall EXCEPT !.op = "Language", !.made = made,
                               !.out = IF made.raised THEN ValueError ELSE None]
    /\ UNCHANGED tree

\* get_function_arity(symbol) and get_relation_arity(symbol) of the language
\* just constructed; index holds the arity returned, 0 for None.
GetArity ==
    /\ call.op = "Language"
    /\ ~call.made.raised
    /\ \E symbol \in VocabularySymbols :
        \/ call' = [call EXCEPT
                        !.op = "get_function_arity", !.symbol = symbol,
                        !.index = first_arity(call.made.functions, symbol)]
        \/ call' = [call EXCEPT
                        !.op = "get_relation_arity", !.symbol = symbol,
                        !.index = first_arity(call.made.relations, symbol)]
    /\ UNCHANGED tree

Next ==
    \/ NewFunctionTerm
    \/ NewAtomicFormula
    \/ NewNegationFormula
    \/ NewDisjunctionFormula
    \/ NewQuantifiedFormula
    \/ Construct
    \/ MutateArguments
    \/ CreateEqualityAxiom
    \/ CreateQuantifierAxiom
    \/ RecognizeCreated
    \/ RecognizeInstantiation
    \/ RecognizeSubstitution
    \/ UniversalQuantifierRule
    \/ ExistentialQuantifierRule
    \/ NewLanguage
    \/ GetArity
    \/ GetFreeVariables
    \/ IsSentence
    \/ VariableFreeInFormula
    \/ Str
    \/ Parse
    \/ ParseGarbled
    \/ ParseShorthand
    \/ TopLevelConnective
    \/ Substitute
    \/ SubstituteRefused
    \/ IsSubstitutableRefused
    \/ IsSubstitutable
    \/ FindSubstituted
    \/ FindSubstitutedIn

Spec == Init /\ [][Next]_vars

\* ------------------------------------------- the parser, call by call

\* The calls string_to_term and string_to_formula make are followed one at
\* a time: call.arguments is the list of the calls that are still to be
\* entered, the next one first, each a record of the parser called ("term"
\* or "formula") and of the symbols it is given.
Call(kind, symbols) == [kind |-> kind, string |-> symbols]

Parses(c) ==
    IF c.kind = "term" THEN string_to_term(L, c.string) # ValueError
    ELSE string_to_formula(L, c.string) # ValueError

\* The calls of a list that are made when they are made in order and the
\* first that raises ends the list.
UntilFailure(calls) ==
    LET failing == {i \in 1..Len(calls) : ~Parses(calls[i])} IN
    IF failing = {} THEN calls
    ELSE SubSeq(calls, 1, CHOOSE i \in failing : \A j \in failing : i <= j)

\* The calls of string_to_term made for one tuple of split indices.
TupleCalls(symbols, split_indices) ==
    UntilFailure(
        [i \in 1..(Len(split_indices) + 1) |->
            Call("term",
                 Slice(symbols,
                       IF i = 1 THEN 1 ELSE split_indices[i - 1],
                       IF i = Len(split_indices) + 1 THEN Len(symbols)
                       ELSE split_indices[i]))])

\* The calls made by the loop over the tuples of split indices: those of
\* every tuple up to the first at which nothing raises.
RECURSIVE LoopCalls(_, _, _)
LoopCalls(symbols, splits, k) ==
    IF k > Len(splits) THEN <<>>
    ELSE LET calls == TupleCalls(symbols, splits[k]) IN
         IF Len(calls) = Len(splits[k]) + 1 /\ Parses(calls[Len(calls)])
         THEN calls
         ELSE calls \o LoopCalls(symbols, splits, k + 1)

\* CallsMade in which the call for the argument of a unary function symbol
\* is given the symbols of the caller.
CallsMade_same_symbols(kind, symbols) ==
    LET function_arity == get_function_arity(L, symbols[1])
        relation_arity == get_relation_arity(L, symbols[1])
        inside(first) == Call("formula", Slice(symbols, first, Len(symbols) - 1))
        located == get_top_level_logical_connective(symbols)
    IN IF Len(symbols) < 2 THEN <<>>
       ELSE IF kind = "term"
       THEN IF function_arity = 0 \/ Len(symbols) < function_arity + 1 THEN <<>>
            ELSE IF function_arity = 1 THEN <<Call("term", symbols)>>
            ELSE LoopCalls(symbols,
                    combinations(2, Len(symbols), function_arity - 1), 1)
       ELSE IF symbols[1] = "="
       THEN LoopCalls(symbols, combinations(2, Len(symbols), 1), 1)
       ELSE IF relation_arity # 0 /\ Len(symbols) >= relation_arity + 1
       THEN IF relation_arity = 1 THEN <<Call("term", Tail(symbols))>>
            ELSE LoopCalls(symbols,
                    combinations(2, Len(symbols), relation_arity - 1), 1)
       ELSE IF symbols[1] # "(" \/ symbols[Len(symbols)] # ")" THEN <<>>
       ELSE IF symbols[2] = "!!" THEN <<inside(2)>>
       ELSE IF /\ Len(symbols) >= 6
               /\ symbols[2] \in {"AA", "EE"}
               /\ is_variable_symbol(symbols[3])
               /\ symbols[4] = ")"
               /\ symbols[5] = "(" THEN <<inside(5)>>
       ELSE IF located.raised THEN <<>>
       ELSE IF symbols[located.index + 1] \notin binary_logical_connectives
       THEN <<>>
       ELSE UntilFailure(
                <<Call("formula", Slice(symbols, 1, located.index)),
                  inside(located.index + 1)>>)

\* The calls of string_to_term and string_to_formula that one call of kind
\* on symbols makes itself, in order.
CallsMade(kind, symbols) ==
    LET function_arity == get_function_arity(L, symbols[1])
        relation_arity == get_relation_arity(L, symbols[1])
        inside(first) == Call("formula", Slice(symbols, first, Len(symbols) - 1))
        located == get_top_level_logical_connective(symbols)
    IN IF Len(symbols) < 2 THEN <<>>
       ELSE IF kind = "term"
       THEN IF function_arity = 0 \/ Len(symbols) < function_arity + 1 THEN <<>>
            ELSE IF function_arity = 1 THEN <<Call("term", Tail(symbols))>>
            ELSE LoopCalls(symbols,
                    combinations(2, Len(symbols), function_arity - 1), 1)
       ELSE IF symbols[1] = "="
       THEN LoopCalls(symbols, combinations(2, Len(symbols), 1), 1)
       ELSE IF relation_arity # 0 /\ Len(symbols) >= relation_arity + 1
       THEN IF relation_arity = 1 THEN <<Call("term", Tail(symbols))>>
            ELSE LoopCalls(symbols,
                    combinations(2, Len(symbols), relation_arity - 1), 1)
       ELSE IF symbols[1] # "(" \/ symbols[Len(symbols)] # ")" THEN <<>>
       ELSE IF symbols[2] = "!!" THEN <<inside(2)>>
       ELSE IF /\ Len(symbols) >= 6
               /\ symbols[2] \in {"AA", "EE"}
               /\ is_variable_symbol(symbols[3])
               /\ symbols[4] = ")"
               /\ symbols[5] = "(" THEN <<inside(5)>>
       ELSE IF located.raised THEN <<>>
       ELSE IF symbols[located.index + 1] \notin binary_logical_connectives
       THEN <<>>
       ELSE UntilFailure(
                <<Call("formula", Slice(symbols, 1, located.index)),
                  inside(located.index + 1)>>)

\* The strings given to the parsers: renderings of terms and of formulas,
\* and the strings one symbol away from them.
ParserInputs ==
    LET renderings ==
            {<<"f3", "f3", "a", "a", "v1", "a", "f1", "v1">>,
             <<"(", "(", "AA", "v1", ")", "(", "r2", "v1", "f1", "a", ")",
               "||", "(", "!!", "=", "v1", "v2", ")", ")">>,
             <<"(", "EE", "v2", ")", "(", "(", "=", "f1", "v2", "a", "->",
               "r2", "a", "a", ")", ")">>}
    IN renderings \cup UNION {Garbled(string) : string \in renderings}

ParserInit ==
    /\ tree = ConstantTerm(L, "a")
    /\ \E string \in ParserInputs, kind \in {"term", "formula"} :
        call = [NoCall EXCEPT !.op = "parsing", !.symbol = kind,
                              !.string = string,
                              !.arguments = <<Call(kind, string)>>]

\* The next call is entered: the calls it makes are to be entered before
\* the calls that were waiting.
ParserEnter ==
    /\ call.op = "parsing"
    /\ call.arguments # <<>>
    /\ call' = [call EXCEPT !.arguments =
                    CallsMade(Head(@).kind, Head(@).string) \o Tail(@)]
    /\ UNCHANGED tree

\* No call is left: the parser returns or raises.
ParserReturn ==
    /\ call.op = "parsing"
    /\ call.arguments = <<>>
    /\ call' = [call EXCEPT
                    !.op = "parsed",
                    !.out = IF call.symbol = "term"
                            THEN string_to_term(L, call.string)
                            ELSE string_to_formula(L, call.string)]
    /\ UNCHANGED tree

ParserNext ==
    \/ ParserEnter
    \/ ParserReturn

\* The interpreter goes on with a call it has started.
ParserSpec == ParserInit /\ [][ParserNext]_vars /\ WF_vars(ParserNext)

\* ------------------------------------------------------------- the claims

\* The subtrees of u, u itself included.
RECURSIVE Subtrees(_)
Subtrees(u) == {u} \cup UNION {Subtrees(u.args[i]) : i \in 1..Len(u.args)}

\* C1: parsing the rendering of a formula built with the constructors gives
\* back a formula equal to it.
FormulaRoundTrip ==
    (/\ call.op = "string_to_formula"
     /\ IsFormula(tree)
     /\ call.string = formula_str(tree))
        => call.out = tree

\* C1 happens: a formula with a disjunction and a quantifier in it has been
\* rendered and parsed.
FormulaRoundTripWitness ==
    /\ call.op = "string_to_formula"
    /\ IsFormula(tree)
    /\ call.string = formula_str(tree)
    /\ call.out # ValueError
    /\ \E u \in Subtrees(tree) : u.tag = "DisjunctionFormula"
    /\ \E u \in Subtrees(tree) : u.tag = "QuantifiedFormula"

\* C2: parsing the rendering of a term built with the constructors gives back
\* a term equal to it.
TermRoundTrip ==
    (/\ call.op = "string_to_term"
     /\ IsTerm(tree)
     /\ call.string = term_str(tree))
        => call.out = tree

\* C2 happens: an application of f3 with an application of f3 among its
\* arguments has been rendered and parsed.
TermRoundTripWitness ==
    /\ call.op = "string_to_term"
    /\ IsTerm(tree)
    /\ call.string = term_str(tree)
    /\ call.out # ValueError
    /\ tree.tag = "FunctionTerm" /\ tree.sym = "f3"
    /\ \E i \in 1..Len(tree.args) :
            tree.args[i].tag = "FunctionTerm" /\ tree.args[i].sym = "f3"

\* x is free in u (for a term: occurs in it).
FreeIn(u, x) ==
    IF IsTerm(u) THEN x \in get_variable_symbols(u)
    ELSE x \in get_free_variables(u)

\* C3: for x free in the tree and t a term, find_substituted_term on the
\* tree and its substitution instance tree.substitute(x, t) returns t.
InverseLaw ==
    (/\ call.op = "find_substituted_term"
     /\ call.t # None
     /\ call.f = substitute(tree, call.x, call.t)
     /\ FreeIn(tree, call.x))
        => call.out = call.t

\* What C4 says of a list of candidates, one per argument pair, none of
\* which raised: None if all are None, else the common witness, and a
\* ValueError only if two witnesses differ.
ClaimedMerge(candidates) ==
    LET witnesses == {candidates[i] : i \in 1..Len(candidates)} \ {None} IN
    IF Raised(candidates) THEN ValueError
    ELSE IF witnesses = {} THEN None
    ELSE IF Cardinality(witnesses) = 1 THEN CHOOSE w \in witnesses : TRUE
    ELSE ValueError

\* C4: find_substituted_term on an application (FunctionTerm or
\* RelationFormula) against an application of the same symbol returns None
\* if every argument pair reports None, the common witness if the pairs that
\* report one agree, and fails only if two witnesses differ.
ApplicationMerge ==
    (/\ call.op = "find_substituted_term"
     /\ tree.tag \in {"FunctionTerm", "RelationFormula"}
     /\ call.f.tag = tree.tag
     /\ call.f.sym = tree.sym)
        => call.out = ClaimedMerge(
                [i \in 1..Len(tree.args) |->
                    term_find_substituted_term(tree.args[i], call.f.args[i],
                                               call.x)])

\* In the tree R that substitute returned for T, x and some term, a variable
\* of a copy of the term that replaced a free occurrence of x is bound by a
\* quantifier of T: bound holds the variables of the quantifiers passed on
\* the way down.
RECURSIVE Captured(_, _, _, _)
Captured(T, R, x, bound) ==
    CASE T.tag = "VariableTerm" ->
            T.sym = x /\ x \notin bound
                /\ get_variable_symbols(R) \cap bound # {}
      [] T.tag = "ConstantTerm" -> FALSE
      [] T.tag = "QuantifiedFormula" ->
            Captured(T.args[1], R.args[1], x, bound \cup {T.sym})
      [] OTHER ->
            \E i \in 1..Len(T.args) : Captured(T.args[i], R.args[i], x, bound)

\* C5: if is_substitutable(x, t) answers False, substitute(x, t) captures a
\* variable of t.
CaptureSoundness ==
    (call.op = "is_substitutable" /\ call.out # ValueError /\ ~call.answer)
        => Captured(tree, call.f, call.x, {})

\* C6: if is_substitutable(x, t) answers True, substitute(x, t) captures no
\* variable of t.
NoCaptureWhenSubstitutable ==
    (call.op = "is_substitutable" /\ call.answer)
        => ~Captured(tree, call.f, call.x, {})

\* C6 happens: a term with a variable has been put under a quantifier, and
\* is_substitutable answered True.
NoCaptureWitness ==
    /\ call.op = "is_substitutable"
    /\ call.answer
    /\ tree.tag = "QuantifiedFormula"
    /\ call.f # tree
    /\ get_variable_symbols(call.t) # {}

\* x has an occurrence in u that no quantifier of u binds.
RECURSIVE OccursFree(_, _)
OccursFree(u, x) ==
    CASE u.tag = "VariableTerm" -> u.sym = x
      [] u.tag = "ConstantTerm" -> FALSE
      [] u.tag = "QuantifiedFormula" -> u.sym # x /\ OccursFree(u.args[1], x)
      [] OTHER -> \E i \in 1..Len(u.args) : OccursFree(u.args[i], x)

\* The recursive definition C7 states.
RECURSIVE SubstitutableByDefinition(_, _, _)
SubstitutableByDefinition(F, x, t) ==
    CASE F.tag \in {"EqualityFormula", "RelationFormula"} -> TRUE
      [] F.tag = "NegationFormula" ->
            SubstitutableByDefinition(F.args[1], x, t)
      [] F.tag = "DisjunctionFormula" ->
            SubstitutableByDefinition(F.args[1], x, t)
                /\ SubstitutableByDefinition(F.args[2], x, t)
      [] F.tag = "QuantifiedFormula" ->
            ~OccursFree(F.args[1], x)
                \/ (~OccursFree(t, F.sym)
                    /\ SubstitutableByDefinition(F.args[1], x, t))

\* C7: is_substitutable answers as the recursive definition says: True on an
\* atomic formula, the operand's answer on a negation, both sides' answers on
\* a disjunction, and on a quantified formula (x not free in the body) or
\* (the bound variable not in t and the body's answer).
SubstitutableAsDefined ==
    (call.op = "is_substitutable" /\ call.out # ValueError)
        => call.answer = SubstitutableByDefinition(tree, call.x, call.t)

\* C7 happens: is_substitutable answered False on a disjunction.
SubstitutableAsDefinedWitness ==
    /\ call.op = "is_substitutable"
    /\ tree.tag = "DisjunctionFormula"
    /\ ~call.answer

\* C8: substituting the variable x for x gives back an equal tree.
SubstitutionIdentity ==
    (call.op = "substitute" /\ call.t = VariableTerm(L, call.x))
        => call.out = tree

\* C8 happens: x has been substituted for x in a quantified formula in which
\* x is free and another variable occurs.
SubstitutionIdentityWitness ==
    /\ call.op = "substitute"
    /\ call.t = VariableTerm(L, call.x)
    /\ tree.tag = "QuantifiedFormula"
    /\ FreeIn(tree, call.x)
    /\ get_free_variables(tree.args[1]) # {call.x}

\* C9: substituting for the bound variable of a quantified formula gives back
\* an equal formula.
VacuousQuantifier ==
    (/\ call.op = "substitute"
     /\ tree.tag = "QuantifiedFormula"
     /\ tree.sym = call.x
     /\ call.t.language = tree.language)
        => call.out = tree

\* C9 happens: a term other than x has been substituted for x in a formula
\* that quantifies x over a body in which x occurs.
VacuousQuantifierWitness ==
    /\ call.op = "substitute"
    /\ tree.tag = "QuantifiedFormula"
    /\ tree.sym = call.x
    /\ call.x \in get_free_variables(tree.args[1])
    /\ call.t # VariableTerm(L, call.x)

\* C10: a term s that find_substituted_term returns satisfies
\* tree.substitute(x, s) == f, and when it returns None every term s does.
FindSound ==
    call.op = "find_substituted_term"
        => CASE call.out = ValueError -> TRUE
             [] call.out = None ->
                    \A s \in SubstitutedTerms :
                        substitute(tree, call.x, s) = call.f
             [] OTHER -> substitute(tree, call.x, call.out) = call.f

\* C11: find_substituted_term on a quantified formula over v, with v # x,
\* against a quantified formula over another variable fails with ValueError.
BoundVariablesAgree ==
    (/\ call.op = "find_substituted_term"
     /\ tree.tag = "QuantifiedFormula"
     /\ call.f.tag = "QuantifiedFormula"
     /\ tree.sym # call.x
     /\ tree.sym # call.f.sym)
        => call.out = ValueError

\* C12: for x not free in the tree (for a term: not occurring in it),
\* find_substituted_term on the tree and itself returns None.
NoConstraint ==
    (/\ call.op = "find_substituted_term"
     /\ call.f = tree
     /\ ~FreeIn(tree, call.x))
        => call.out = None

\* C12 happens: the tree, a quantified formula over x with x in its body, has
\* been compared with itself for x.
NoConstraintWitness ==
    /\ call.op = "find_substituted_term"
    /\ call.t = None
    /\ call.f = tree
    /\ tree.tag = "QuantifiedFormula"
    /\ tree.sym = call.x
    /\ call.x \in get_free_variables(tree.args[1])
    /\ call.out = None

\* A tree of the grammar, as a value.
Node(tag, sym, args) == [language |-> L, tag |-> tag, sym |-> sym, args |-> args]

\* The symbols of index lo to hi of a string.
Part(s, lo, hi) == SubSeq(s, lo, hi)

\* The terms, and the lists of n terms, that the grammar of terms derives
\* from a string of symbols of the language L: a variable symbol, a constant
\* symbol, or an n-ary function symbol followed by n terms.
RECURSIVE GrammarArguments(_, _)
RECURSIVE GrammarTerms(_)
GrammarTerms(s) ==
    IF s = <<>> THEN {}
    ELSE IF Len(s) = 1
    THEN IF s[1] \in VariableSymbols THEN {Node("VariableTerm", s[1], <<>>)}
         ELSE IF s[1] \in Languages[L].constants
         THEN {Node("ConstantTerm", s[1], <<>>)}
         ELSE {}
    ELSE UNION {IF s[1] \in Languages[L].functions[n]
                THEN {Node("FunctionTerm", s[1], arguments) :
                        arguments \in GrammarArguments(Tail(s), n)}
                ELSE {} : n \in DOMAIN Languages[L].functions}

GrammarArguments(s, n) ==
    IF n = 0 THEN (IF s = <<>> THEN {<<>>} ELSE {})
    ELSE UNION {{<<t>> \o rest :
                    t \in GrammarTerms(Part(s, 1, k)),
                    rest \in GrammarArguments(Part(s, k + 1, Len(s)), n - 1)} :
                k \in 1..Len(s)}

\* The primitive formula a shorthand of the grammar stands for.
Desugared(connective, P, Q) ==
    LET Not(F) == Node("NegationFormula", "", <<F>>)
        Or(F, G) == Node("DisjunctionFormula", "", <<F, G>>)
        And(F, G) == Not(Or(Not(F), Not(G)))
        Implies(F, G) == Or(Not(F), G)
    IN CASE connective = "||" -> Or(P, Q)
         [] connective = "&&" -> And(P, Q)
         [] connective = "->" -> Implies(P, Q)
         [] connective = "<->" -> And(Implies(P, Q), Implies(Q, P))

\* The formulas that the grammar of formulas derives from a string.
RECURSIVE GrammarFormulas(_)
GrammarFormulas(s) ==
    LET n == Len(s)
        atoms ==
            IF s[1] = "="
            THEN {Node("EqualityFormula", "", arguments) :
                    arguments \in GrammarArguments(Tail(s), 2)}
            ELSE UNION {IF s[1] \in Languages[L].relations[k]
                        THEN {Node("RelationFormula", s[1], arguments) :
                                arguments \in GrammarArguments(Tail(s), k)}
                        ELSE {} : k \in DOMAIN Languages[L].relations}
        negations ==
            IF n >= 3 /\ s[2] = "!!"
            THEN {Node("NegationFormula", "", <<Q>>) :
                    Q \in GrammarFormulas(Part(s, 3, n - 1))}
            ELSE {}
        quantified ==
            IF n >= 6 /\ s[2] \in {"AA", "EE"} /\ s[3] \in VariableSymbols
                /\ s[4] = ")" /\ s[5] = "("
            THEN {IF s[2] = "AA" THEN Node("QuantifiedFormula", s[3], <<Q>>)
                  ELSE Node("NegationFormula", "",
                        <<Node("QuantifiedFormula", s[3],
                            <<Node("NegationFormula", "", <<Q>>)>>)>>) :
                    Q \in GrammarFormulas(Part(s, 6, n - 1))}
            ELSE {}
        binary ==
            UNION {IF s[i] \in {"||", "&&", "->", "<->"}
                   THEN {Desugared(s[i], P, Q) :
                            P \in GrammarFormulas(Part(s, 2, i - 1)),
                            Q \in GrammarFormulas(Part(s, i + 1, n - 1))}
                   ELSE {} : i \in 3..(n - 2)}
    IN IF n < 2 THEN {}
       ELSE atoms \cup (IF s[1] = "(" /\ s[n] = ")"
                        THEN negations \cup quantified \cup binary
                        ELSE {})

\* C13: string_to_term / string_to_formula returns a term / formula that the
\* grammar derives from the string, or raises ValueError, and it raises
\* ValueError on every string from which the grammar derives nothing.
ParseTotal ==
    /\ call.op = "string_to_term"
        => IF GrammarTerms(call.string) = {} THEN call.out = ValueError
           ELSE call.out \in GrammarTerms(call.string)
    /\ call.op = "string_to_formula"
        => IF GrammarFormulas(call.string) = {} THEN call.out = ValueError
           ELSE call.out \in GrammarFormulas(call.string)

\* C13 happens: the rendering of a disjunction less one symbol has been
\* given to string_to_formula, which raised ValueError.
ParseTotalWitness ==
    /\ call.op = "string_to_formula"
    /\ tree.tag = "DisjunctionFormula"
    /\ Len(call.string) = Len(formula_str(tree)) - 1
    /\ call.out = ValueError

\* C14: string_to_formula gives for "( P && Q )" the tree
\* Negation(Disjunction(Negation(P), Negation(Q))), for "( P -> Q )" the tree
\* Disjunction(Negation(P), Q), for "( P <-> Q )" the conjunction of both
\* implications and for "( EE v ) ( Q )" the tree
\* Negation(Quantified(v, Negation(Q))), P and Q standing for what the
\* parser makes of the parts; the tree is what the create_ functions build
\* from the parsed parts and has primitive shapes only.
ShorthandDesugared ==
    call.op = "string_to_formula" =>
        LET s == call.string
            n == Len(s)
            bracketed == n >= 2 /\ s[1] = "(" /\ s[n] = ")"
            P(i) == string_to_formula(L, Part(s, 2, i - 1))
            Q(i) == string_to_formula(L, Part(s, i + 1, n - 1))
            create(c, F, G) ==
                CASE c = "&&" -> create_conjunction_formula(F, G)
                  [] c = "->" -> create_implication_formula(F, G)
                  [] c = "<->" -> create_equivalence_formula(F, G)
            body == string_to_formula(L, Part(s, 6, n - 1))
        IN /\ \A i \in 3..(n - 2) :
                (/\ bracketed
                 /\ s[i] \in {"&&", "->", "<->"}
                 /\ P(i) # ValueError
                 /\ Q(i) # ValueError)
                    => /\ call.out = Desugared(s[i], P(i), Q(i))
                       /\ call.out = create(s[i], P(i), Q(i))
           /\ (/\ bracketed
               /\ n >= 6
               /\ s[2] = "EE" /\ s[3] \in VariableSymbols
               /\ s[4] = ")" /\ s[5] = "("
               /\ body # ValueError)
                    => /\ call.out =
                            Node("NegationFormula", "",
                                <<Node("QuantifiedFormula", s[3],
                                    <<Node("NegationFormula", "", <<body>>)>>)>>)
                       /\ call.out = create_existential_formula(body, s[3])
           /\ call.out # ValueError
                => \A u \in Subtrees(call.out) :
                        u.tag \in {"VariableTerm", "ConstantTerm", "FunctionTerm",
                                   "EqualityFormula", "RelationFormula",
                                   "NegationFormula", "DisjunctionFormula",
                                   "QuantifiedFormula"}

\* C14 happens: a string with "<->" and "EE" in it has been parsed.
ShorthandDesugaredWitness ==
    /\ call.op = "string_to_formula"
    /\ \E i \in 1..Len(call.string) : call.string[i] = "<->"
    /\ \E i \in 1..Len(call.string) : call.string[i] = "EE"
    /\ call.out # ValueError

\* The number of "(" less the number of ")" among the first k symbols of s.
Depth(s, k) ==
    Cardinality({j \in 1..k : s[j] = "("}) - Cardinality({j \in 1..k : s[j] = ")"})

\* The indices (from 0) of the binary connectives of s at depth exactly 1.
TopLevelPlaces(s) ==
    {i \in 0..(Len(s) - 1) :
        s[i + 1] \in {"||", "&&", "->", "<->"} /\ Depth(s, i) = 1}

\* C15: get_top_level_logical_connective returns the index i of the first
\* binary connective at depth exactly 1 if there is one and
\* 1 < i < len(symbols) - 2, and raises ValueError otherwise.
TopLevelConnectiveLocated ==
    call.op = "get_top_level_logical_connective" =>
        LET s == call.string
            places == TopLevelPlaces(s)
            first == CHOOSE i \in places : \A j \in places : i <= j
        IN IF places # {} /\ 1 < first /\ first < Len(s) - 2
           THEN call.out = None /\ call.index = first
           ELSE call.out = ValueError

\* The arities a language declares for a symbol, in one of its two arity
\* dictionaries.
Arities(declared, symbol) == {n \in DOMAIN declared : symbol \in declared[n]}

\* The arguments a constructor must refuse, as C16 lists them.
Refused(op, language, symbol, arguments) ==
    LET other_language ==
            \E i \in 1..Len(arguments) : arguments[i].language # language
        application(declared) ==
            \/ Arities(declared, symbol) = {}
            \/ Len(arguments) \notin Arities(declared, symbol)
            \/ other_language
    IN CASE op = "FunctionTerm" -> application(Languages[language].functions)
         [] op = "RelationFormula" -> application(Languages[language].relations)
         [] op = "VariableTerm" -> symbol \notin VariableSymbols
         [] op = "QuantifiedFormula" ->
                symbol \notin VariableSymbols \/ other_language
         [] op = "ConstantTerm" -> symbol \notin Languages[language].constants
         [] OTHER -> other_language

\* Every application node of u has as many arguments as its symbol's arity,
\* and every node of u has the language of u.
WellFormed(u) ==
    \A w \in Subtrees(u) :
        /\ w.language = u.language
        /\ w.tag = "FunctionTerm" =>
                Len(w.args) \in Arities(Languages[u.language].functions, w.sym)
        /\ w.tag = "RelationFormula" =>
                Len(w.args) \in Arities(Languages[u.language].relations, w.sym)

FreeVariables ==
    LET free == {x \in VariableSymbols : OccursFree(tree, x)} IN
    /\ call.op = "get_free_variables" => call.variables = free
    /\ call.op = "is_sentence" => call.answer = (free = {})
    /\ call.op = "variable_free_in_formula" => call.answer = (call.x \in free)

\* C17 happens: get_free_variables has been called on a formula in which a
\* variable occurs both bound and free, and has returned it.
FreeVariablesWitness ==
    /\ call.op = "get_free_variables"
    /\ tree.tag = "DisjunctionFormula"
    /\ \E u \in Subtrees(tree) :
        /\ u.tag = "QuantifiedFormula"
        /\ u.sym \in get_free_variables(u.args[1])
        /\ u.sym \in call.variables

InstanceOfUniversalInstantiation(F) ==
    /\ F.tag = "DisjunctionFormula"
    /\ F.args[1].tag = "NegationFormula"
    /\ F.args[1].args[1].tag = "QuantifiedFormula"
    /\ LET x == F.args[1].args[1].sym
           P == F.args[1].args[1].args[1]
       IN \E t \in {u \in Subtrees(F.args[2]) : IsTerm(u)}
                        \cup {ConstantTerm(L, "a")} :
            /\ SubstitutableByDefinition(P, x, t)
            /\ formula_substitute(P, x, t) = F.args[2]

\* C21: a formula is_universal_instantiation_axiom accepts is
\* ( ( AA x ) ( P ) -> P[t/x] ) for some P, x and t with t substitutable for x
\* in P.
UniversalInstantiationSound ==
    (call.op = "is_universal_instantiation_axiom" /\ call.answer)
        => InstanceOfUniversalInstantiation(call.f)

\* The variable pairs read off two applications, argument by argument.
PairsOf(A1, A2) ==
    [i \in 1..Len(A1.args) |-> <<A1.args[i].sym, A2.args[i].sym>>]

\* F is the output of create_function_substitution_axiom for some list of
\* n >= 1 variable pairs and an n-ary function symbol: the pairs and the
\* symbol can only be those of its consequent.
InstanceOfFunctionSubstitution(F) ==
    /\ F.tag = "DisjunctionFormula"
    /\ F.args[2].tag = "EqualityFormula"
    /\ LET A1 == F.args[2].args[1]
           A2 == F.args[2].args[2]
       IN /\ Len(A1.args) = Len(A2.args)
          /\ F = create_function_substitution_axiom(
                        F.language, PairsOf(A1, A2), A1.sym)

InstanceOfRelationSubstitution(F) ==
    /\ F.tag = "DisjunctionFormula"
    /\ F.args[2].tag = "DisjunctionFormula"
    /\ F.args[2].args[1].tag = "NegationFormula"
    /\ LET A1 == F.args[2].args[1].args[1]
           A2 == F.args[2].args[2]
       IN /\ Len(A1.args) = Len(A2.args)
          /\ F = create_relation_substitution_axiom(
                        F.language, PairsOf(A1, A2), A1.sym)

\* C22: is_function_substitution_axiom (is_relation_substitution_axiom)
\* answers True exactly on the outputs of create_function_substitution_axiom
\* (create_relation_substitution_axiom), and False on a formula that differs
\* from one in a count, an order or a symbol.
SubstitutionAxiomRecognized ==
    /\ call.op = "is_function_substitution_axiom"
            => call.answer = InstanceOfFunctionSubstitution(call.f)
    /\ call.op = "is_relation_substitution_axiom"
            => call.answer = InstanceOfRelationSubstitution(call.f)

\* C22 happens: is_function_substitution_axiom answered False on a formula
\* that differs from an axiom of three pairs only in the order of the
\* arguments of its second application.
SubstitutionAxiomRecognizedWitness ==
    /\ call.op = "is_function_substitution_axiom"
    /\ ~call.answer
    /\ Len(call.arguments) = 3
    /\ call.f.tag = "DisjunctionFormula"
    /\ call.f.args[2].tag = "EqualityFormula"
    /\ call.f # create_function_substitution_axiom(L, call.arguments, "f3")
    /\ WithApplications(call.f, Applications(call.f)[1],
            [Applications(call.f)[2] EXCEPT !.args = Reverse(@)])
         = create_function_substitution_axiom(L, call.arguments, "f3")

\* The formulas among the subtrees of u.
Subformulas(u) == {w \in Subtrees(u) : IsFormula(w)}

\* Gamma is one formula ( psi -> phi ) and theta is ( psi -> ( AA x ) ( phi ) )
\* for a variable x with no free occurrence in psi.
UniversalRuleInstance(Gamma, theta) ==
    /\ Len(Gamma) = 1
    /\ \E psi \in Subformulas(Gamma[1]), phi \in Subformulas(Gamma[1]),
          x \in VariableSymbols :
        /\ Gamma[1] = Node("DisjunctionFormula", "",
                            <<Node("NegationFormula", "", <<psi>>), phi>>)
        /\ theta = Node("DisjunctionFormula", "",
                        <<Node("NegationFormula", "", <<psi>>),
                          Node("QuantifiedFormula", x, <<phi>>)>>)
        /\ ~OccursFree(psi, x)

ExistentialRuleInstance(Gamma, theta) ==
    /\ Len(Gamma) = 1
    /\ \E phi \in Subformulas(Gamma[1]), psi \in Subformulas(Gamma[1]),
          x \in VariableSymbols :
        /\ Gamma[1] = Node("DisjunctionFormula", "",
                            <<Node("NegationFormula", "", <<phi>>), psi>>)
        /\ theta = Node("DisjunctionFormula", "",
                    <<Node("NegationFormula", "",
                        <<Node("NegationFormula", "",
                            <<Node("QuantifiedFormula", x,
                                <<Node("NegationFormula", "", <<phi>>)>>)>>)>>),
                      psi>>)
        /\ ~OccursFree(psi, x)

SymbolsOf(dictionary) == UNION {dictionary[i][2] : i \in 1..Len(dictionary)}

\* The arities under which a symbol is listed in a dictionary.
AritiesOf(dictionary, symbol) ==
    {dictionary[i][1] : i \in {j \in 1..Len(dictionary) :
                                    symbol \in dictionary[j][2]}}

\* What C25 says Language refuses: a symbol given in two of the sets, a
\* symbol that is logical, shorthand, a variable or has whitespace, a key
\* that is not positive.
RefusedVocabulary(made) ==
    LET given == <<made.constants>> \o dict_values(made.functions)
                        \o dict_values(made.relations)
        symbols == UNION {given[i] : i \in 1..Len(given)}
    IN \/ \E i \in 1..Len(given), j \in 1..Len(given) :
                i # j /\ given[i] \cap given[j] # {}
       \/ symbols \cap {"(", ")", "||", "!!", "AA", "=",
                        "&&", "->", "<->", "EE", "r 2",
                        "v1", "v2", "v3"} # {}
       \/ \E i \in 1..Len(made.functions) : made.functions[i][1] < 1
       \/ \E i \in 1..Len(made.relations) : made.relations[i][1] < 1

\* C25: Language raises ValueError on a vocabulary with a symbol in two sets,
\* an unusable symbol or a key that is not positive; the symbols of a
\* constructed language are disjoint by role, and get_function_arity and
\* get_relation_arity return the one positive arity of a symbol of the role
\* and None for any other symbol.
VocabularyValidated ==
    /\ call.op = "Language" =>
            /\ RefusedVocabulary(call.made) => call.out = ValueError
            /\ call.out # ValueError =>
                /\ call.made.constants \cap SymbolsOf(call.made.functions) = {}
                /\ call.made.constants \cap SymbolsOf(call.made.relations) = {}
                /\ SymbolsOf(call.made.functions)
                        \cap SymbolsOf(call.made.relations) = {}
    /\ call.op = "get_function_arity" =>
            IF call.symbol \in SymbolsOf(call.made.functions)
            THEN /\ call.index > 0
                 /\ AritiesOf(call.made.functions, call.symbol) = {call.index}
            ELSE call.index = 0
    /\ call.op = "get_relation_arity" =>
            IF call.symbol \in SymbolsOf(call.made.relations)
            THEN /\ call.index > 0
                 /\ AritiesOf(call.made.relations, call.symbol) = {call.index}
            ELSE call.index = 0

\* A language of two function symbols of different arities was constructed,
\* and the arity of the second was returned.
ArityReturnedWitness ==
    /\ call.op = "get_function_arity"
    /\ Len(call.made.functions) = 2
    /\ call.index = 2

\* C25 happens: Language refused a symbol given as a constant and as a
\* relation symbol.
VocabularyValidatedWitness ==
    /\ call.op = "Language"
    /\ call.out = ValueError
    /\ call.made.constants = {"a"}
    /\ call.made.functions = <<>>
    /\ call.made.relations = << <<2, {"a"}>> >>

\* C26: find_substituted_term on an equality or a disjunction against a
\* result of the same shape returns None if both sides give None, the witness
\* if one side gives one, the common witness if both give equal witnesses,
\* and fails if the witnesses differ; against a result of another shape it
\* fails.
TwoSidesMerged ==
    (/\ call.op = "find_substituted_term"
     /\ tree.tag \in {"EqualityFormula", "DisjunctionFormula"}
     /\ call.f.language = tree.language)
        => IF call.f.tag # tree.tag THEN call.out = ValueError
           ELSE call.out = ClaimedMerge(
                    [i \in 1..2 |->
                        find_substituted_term(tree.args[i], call.f.args[i],
                                              call.x)])

\* C26 happens: the two sides of a disjunction gave equal witnesses and the
\* witness was returned.
TwoSidesMergedWitness ==
    /\ call.op = "find_substituted_term"
    /\ tree.tag = "DisjunctionFormula"
    /\ call.f.tag = "DisjunctionFormula"
    /\ call.out \notin {ValueError, None}
    /\ find_substituted_term(tree.args[1], call.f.args[1], call.x) = call.out
    /\ find_substituted_term(tree.args[2], call.f.args[2], call.x) = call.out

\* The two sides of an equality gave different witnesses and the call failed.
DifferentWitnessesWitness ==
    /\ call.op = "find_substituted_term"
    /\ tree.tag = "EqualityFormula"
    /\ call.f.tag = "EqualityFormula"
    /\ call.out = ValueError
    /\ LET c == [i \in 1..2 |->
                    find_substituted_term(tree.args[i], call.f.args[i], call.x)]
       IN ~Raised(c) /\ c[1] # None /\ c[2] # None /\ c[1] # c[2]

\* C27: find_substituted_term on a quantified formula for its bound variable
\* returns None if the result is equal to the pattern and fails with
\* ValueError for every other result.
BoundVariableFind ==
    (/\ call.op = "find_substituted_term"
     /\ tree.tag = "QuantifiedFormula"
     /\ tree.sym = call.x)
        => call.out = IF call.f = tree THEN None ELSE ValueError

\* C27 happens: the result quantifies the same variable over a body in which
\* the occurrences of x were replaced, and the call failed.
BoundVariableFindWitness ==
    /\ call.op = "find_substituted_term"
    /\ tree.tag = "QuantifiedFormula"
    /\ tree.sym = call.x
    /\ call.f.tag = "QuantifiedFormula"
    /\ call.f.sym = tree.sym
    /\ OccursFree(tree.args[1], call.x)
    /\ call.f.args[1] = formula_substitute(tree.args[1], call.x,
                                           ConstantTerm(L, "a"))
    /\ call.out = ValueError

\* C28: for x free in a formula T and t substitutable for x in T, the free
\* variables of T.substitute(x, t) are those of T without x, with the
\* variables of t; for x not free in T, T.substitute(x, t) is equal to T.
FreeVariablesAfterSubstitution ==
    /\ (/\ call.op = "is_substitutable"
        /\ call.answer
        /\ variable_free_in_formula(tree, call.x))
            => get_free_variables(call.f)
                = (get_free_variables(tree) \ {call.x})
                        \cup get_variable_symbols(call.t)
    /\ (/\ call.op = "substitute"
        /\ IsFormula(tree)
        /\ call.out # ValueError
        /\ ~variable_free_in_formula(tree, call.x))
            => call.out = tree

\* C28 happens: a term with a variable has been substituted for x in a
\* disjunction in which x is free on one side and bound on the other.
FreeVariablesAfterSubstitutionWitness ==
    /\ call.op = "is_substitutable"
    /\ call.answer
    /\ tree.tag = "DisjunctionFormula"
    /\ OccursFree(tree, call.x)
    /\ \E u \in Subtrees(tree) :
            u.tag = "QuantifiedFormula" /\ u.sym = call.x
                /\ OccursFree(u.args[1], call.x)
    /\ get_variable_symbols(call.t) \notin {{}, {call.x}}

\* The number of terms that follow the first symbol of a token sequence: 2
\* after "=", the arity after a function or relation symbol, 0 otherwise.
LeadingArity(language, symbols) ==
    IF symbols[1] = "=" THEN 2
    ELSE IF get_function_arity(language, symbols[1]) # 0
    THEN get_function_arity(language, symbols[1])
    ELSE get_relation_arity(language, symbols[1])

\* The tuples of split points of a token sequence at which every argument
\* slice parses as a term.
SuccessfulSplits(language, symbols) ==
    LET splits == combinations(2, Len(symbols),
                               LeadingArity(language, symbols) - 1)
    IN {splits[k] : k \in {j \in 1..Len(splits) :
            ~Raised(term_arguments(language, symbols, splits[j]))}}

\* C29: in a string that is parsed, every token sequence that starts with a
\* function symbol, a relation symbol or "=" (the string, or a slice of it
\* that a recursive call may be given) has at most one tuple of split points
\* at which every argument slice parses as a term.
ParseUnambiguous ==
    call.op \in {"string_to_term", "string_to_formula"}
        => \A i \in 1..Len(call.string), j \in 1..Len(call.string) :
            (/\ j >= i + 2
             /\ LeadingArity(L, SubSeq(call.string, i, j)) >= 2)
                => Cardinality(SuccessfulSplits(L, SubSeq(call.string, i, j)))
                        <= 1

\* C29 happens: an application of f3 with an application of f3 among its
\* arguments was parsed; of the several tuples of split points, one succeeds.
ParseUnambiguousWitness ==
    /\ call.op = "string_to_term"
    /\ call.out # ValueError
    /\ call.out.sym = "f3"
    /\ \E i \in 1..3 : call.out.args[i].sym = "f3"
    /\ Len(combinations(2, Len(call.string), 2)) > 1
    /\ Cardinality(SuccessfulSplits(L, call.string)) = 1

\* C30: string_to_term and string_to_formula terminate: every call they make
\* of themselves is given fewer symbols than the call that makes it, so the
\* calls still to be made shrink in the multiset order of their lengths and
\* no run of the parser goes on for ever; and when no call is left the parser
\* returns a tree or raises ValueError.
ParserTerminates ==
    /\ [][call.op = "parsing" /\ call'.op = "parsing"
            => \A i \in 1..(Len(call'.arguments) - Len(call.arguments) + 1) :
                    Len(call'.arguments[i].string)
                        < Len(Head(call.arguments).string)]_vars
    /\ [][call.op = "parsing" /\ call'.op = "parsed"
            => /\ call.arguments = <<>>
               /\ \/ call'.out = ValueError
                  \/ call.symbol = "term" /\ IsTerm(call'.out)
                  \/ call.symbol = "formula" /\ IsFormula(call'.out)]_vars
    /\ [](call.op = "parsing" /\ call.arguments # <<>>
            => LET made == CallsMade(Head(call.arguments).kind,
                                     Head(call.arguments).string)
               IN \A i \in 1..Len(made) :
                    Len(made[i].string) < Len(Head(call.arguments).string))

\* C30 happens: the parser returned a formula for a string with a
\* quantifier, a disjunction and a relation of two arguments, after the
\* calls it made were followed to the last.
ParserTerminatesWitness ==
    /\ call.op = "parsed"
    /\ call.arguments = <<>>
    /\ call.symbol = "formula"
    /\ call.out # ValueError
    /\ \E u \in Subtrees(call.out) : u.tag = "QuantifiedFormula"
    /\ \E u \in Subtrees(call.out) : u.tag = "DisjunctionFormula"
    /\ \E u \in Subtrees(call.out) : u.tag = "RelationFormula"

====
